---- MODULE Spec2Model ----
(***************************************************************************)
(* Model of the durable task worker of base-go-app: the consumer           *)
(* supervisor and worker pool (internal/queue/consumer.go), the dispatcher *)
(* (internal/tasks/dispatcher.go), the detached notification goroutines    *)
(* and the shutdown sequence of cmd/worker/main.go.                        *)
(***************************************************************************)
EXTENDS Integers, Sequences, FiniteSets, TLC

(***************************************************************************)
(* Bounds of the model.                                                    *)
(***************************************************************************)
\* number of pool workers (WORKER_CONCURRENCY)
NumWorkers == 2
\* capacity of the delivery channel taskCh (TASK_CHANNEL_BUFFER)
BufferSize == 1
\* number of deliveries the broker hands over that are not retries
MaxFresh == 1
\* number of successful dials (broker sessions) of one run
MaxSessions == 2
\* number of failed dials of one run
MaxDialFailures == 1
\* largest attempt field of a fresh delivery (the smallest is -1)
MaxAttemptIn == 1
\* largest max_attempts field of a fresh delivery (the smallest is -1)
MaxMaxAttemptsIn == 3
\* goroutines calling the registry functions directly
NumCallers == 2
\* ids one publisher generates
MaxUuids == 2
\* goroutines calling Send on the webhook client
NumSenders == 2
\* tokens the token endpoint issues in one run
MaxTokens == 3
\* steps of the clock in one run
MaxTicks == 4

\* the largest WORKER_CONCURRENCY and TASK_CHANNEL_BUFFER of the pool count
MaxConcurrency == 2

MaxBuffer == 3
\* envelopes late in a long lineage: one whose next delay passes 30 s, one
\* whose next shift count is 63
LateAttempt == 5
\* messages published in a run that ends with a shutdown
MaxPlain == 2
\* failed dials in a run of the supervisor on its own
MaxDialStreak == 6
HugeAttempt == 63

(***************************************************************************)
(* Program constants.                                                      *)
(***************************************************************************)
DefaultMaxAttempts == 5
NotifyTimeoutSeconds == 10
InitialDialDelay == 2
MaxDialDelay == 30
RetryCapMs == 30000

Workers == 1..NumWorkers

(***************************************************************************)
(* The task envelope (TaskPayload) and delivery bodies.                    *)
(***************************************************************************)
NoNotify == [present |-> FALSE, sockudo |-> FALSE, webhook |-> FALSE]

NotifyConfigs ==
    {NoNotify} \cup
    {[present |-> TRUE, sockudo |-> s, webhook |-> w] : s \in BOOLEAN, w \in BOOLEAN}

\* the payload field: on the wire the key is absent, null or a JSON value;
\* in the decoded struct the RawMessage is nil, the bytes "null" or the value
WirePayloads == {"absent", "null", "obj"}

ZeroEnvelope ==
    [id |-> 0, task |-> "", payload |-> "nil", attempt |-> 0, max_attempts |-> 0,
     timeout_seconds |-> 0, notify |-> NoNotify]

\* the task names a delivery may carry: the built-in handler, a handler
\* registered by the embedding program or a test, and a name nobody registered
TaskNames == {"logger", "job", "ghost"}

\* the names registered when the consumer starts: the init of logger_task.go
\* and the handlers the embedding program registered
registry == {"logger", "job"}

\* the package-level registry map and its RWMutex, and the goroutines that
\* call RegisterTask, LookupTask and ClearRegistry directly
VARIABLE reg

NoHandler == "none"

Handlers == {"h1", "h2"}

Callers == 1..NumCallers

NoCall == [pc |-> "idle", name |-> "", h |-> NoHandler, op |-> "none", out |-> "none"]

EmptyRegistry == [n \in TaskNames |-> NoHandler]

RegistryAtStart ==
    [map |-> [n \in TaskNames |-> IF n \in registry THEN "h1" ELSE NoHandler],
     writer |-> 0, readers |-> {}, calls |-> [c \in Callers |-> NoCall]]

\* the packages beside the consumer: the RabbitMQPublisher of
\* internal/publisher with the broker operations of its last call
VARIABLES rmq

\* the OAuthClient of internal/webhook with its token cache, the clock, and
\* the goroutines that call Send on it
VARIABLES oauth

\* the package internal/database (the DB handle, the dbConnected flag, the
\* reconnect goroutine, Close), and the callers that read it: one call of the
\* logger handler and one request to /healthcheck
VARIABLES db

\* the pool of StartConsumer counted by broker session: its configuration,
\* the deliveries the broker has out unacknowledged, those buffered in the
\* delivery channel and those the workers hold
VARIABLES bp

libVars == <<rmq, oauth, db, bp>>

\* h, ok := registry[name]
LookupTask(name) == reg.map[name] # NoHandler

(***************************************************************************)
(* Pure parts of Dispatcher.Dispatch.                                      *)
(***************************************************************************)
BodyKinds == {"native", "celery", "garbage"}

\* json.Unmarshal(body, &envelope): a JSON object decodes into the struct;
\* a JSON array (the Celery wrapper) or undecodable bytes give an error
\* an absent payload key leaves the RawMessage nil
Decode(body) ==
    IF body.kind = "native"
    THEN [ok |-> TRUE,
          env |-> [body.env EXCEPT !.payload = IF @ = "absent" THEN "nil" ELSE @]]
    ELSE [ok |-> FALSE, env |-> ZeroEnvelope]

\* json.Marshal(payload) in the retry path: the payload key has no omitempty
\* and a nil RawMessage is written as null
Encode(env) ==
    [kind |-> "native", env |-> [env EXCEPT !.payload = IF @ = "nil" THEN "null" ELSE @]]

\* a default applied to negative values only
NormalizeOnlyNegative(m) == IF m < 0 THEN DefaultMaxAttempts ELSE m

\* envelope.MaxAttempts <= 0 is replaced by DefaultMaxAttempts
NormalizeMaxAttempts(m) == IF m <= 0 THEN DefaultMaxAttempts ELSE m

HasDeadline(env) == env.timeout_seconds > 0

\* what a handler can do with one call: its own result, whether it runs
\* longer than the envelope's timeout, whether it watches its context
HandlerBehaviours(task) ==
    [ret : {"ok", "err"}, slow : BOOLEAN,
     obeys : IF task = "logger" THEN {FALSE} ELSE BOOLEAN]

\* the values Handle can return under taskCtx
HandlerReturns(beh, env, cancelled) ==
    IF beh.obeys /\ HasDeadline(env) /\ beh.slow
    THEN {"deadline"} \cup (IF cancelled THEN {"canceled"} ELSE {})
    ELSE {beh.ret} \cup (IF beh.obeys /\ cancelled THEN {"canceled"} ELSE {})

NoResult == [Success |-> FALSE, Retry |-> FALSE, RetryAttempt |-> 0, Error |-> "none"]

\* a parse failure reported as retriable
ParseFailureRetried == [NoResult EXCEPT !.Retry = TRUE, !.RetryAttempt = 1, !.Error = "parse"]

ParseFailure == [NoResult EXCEPT !.Error = "parse"]

\* an unknown task reported as retriable
UnknownTaskRetried ==
    [NoResult EXCEPT !.Retry = TRUE, !.RetryAttempt = 1, !.Error = "unknown task"]

UnknownTask == [NoResult EXCEPT !.Error = "unknown task"]

\* the retry test with the bound off by one, upwards and downwards
AttemptsRemainOffByOne(env) == env.attempt < NormalizeMaxAttempts(env.max_attempts)

AttemptsRemainEarly(env) == env.attempt < NormalizeMaxAttempts(env.max_attempts) - 2

\* the retry test of Dispatch after a handler error
AttemptsRemain(env) == env.attempt < NormalizeMaxAttempts(env.max_attempts) - 1

\* the DispatchResult after the handler returned herr
HandlerVerdict(env, herr) ==
    IF herr # "ok"
    THEN IF AttemptsRemain(env)
         THEN [Success |-> FALSE, Retry |-> TRUE,
               RetryAttempt |-> env.attempt + 1, Error |-> herr]
         ELSE [Success |-> FALSE, Retry |-> FALSE, RetryAttempt |-> 0, Error |-> herr]
    ELSE [Success |-> TRUE, Retry |-> FALSE, RetryAttempt |-> 0, Error |-> "none"]

\* an error notification on every handler error, retried or not
NotifyCallOnRetry(env, herr) == IF herr # "ok" THEN "error" ELSE "success"

\* the status Dispatch passes to notify, "none" when it does not call it
NotifyCall(env, herr) ==
    IF herr # "ok"
    THEN IF AttemptsRemain(env) THEN "none" ELSE "error"
    ELSE "success"

\* notify: the goroutines it starts, one per sub-record of the notify config
SinkJob(sink, env, status) ==
    [sink |-> sink, id |-> env.id, attempt |-> env.attempt, status |-> status,
     st |-> "spawned", parent |-> "background", timeout |-> NotifyTimeoutSeconds]

notify(env, status) ==
    IF ~env.notify.present
    THEN {}
    ELSE (IF env.notify.sockudo THEN {SinkJob("sockudo", env, status)} ELSE {})
         \cup (IF env.notify.webhook THEN {SinkJob("webhook", env, status)} ELSE {})

(***************************************************************************)
(* Pure parts of the worker's retry path.                                  *)
(***************************************************************************)
\* 1 << (payload.Attempt - 1) panics on a negative shift count
ShiftPanics(attempt) == attempt - 1 < 0

\* int64(1000 * (1 << (payload.Attempt - 1))): a shift by 63 or more leaves
\* a product that is 0 modulo 2^64
BackoffMs(attempt) ==
    IF attempt - 1 >= 63 THEN 0 ELSE 1000 * (2 ^ (attempt - 1))

(***************************************************************************)
(* State.                                                                  *)
(***************************************************************************)
VARIABLES
    ctxDone,         \* the parent context of StartConsumer is cancelled
    mainPc,          \* main: "running", "waiting", "exited"; "crashed" after a panic
    sup,             \* the supervisor goroutine: pc, dial delay, delivery in hand, qos
    rabbitConnected, \* the rabbitConnected flag
    currentCh,       \* the shared publish-channel reference, 0 is nil
    openCh,          \* the AMQP channel that is open, 0 when none is
    connOpen,        \* the AMQP connection of the session is open
    sessions,        \* successful dials so far
    dialFailures,    \* failed dials so far
    taskCh,          \* the buffered delivery channel
    taskChClosed,    \* close(taskCh) has run
    done,            \* close(done) has run
    brokerQ,         \* messages the workers republished, not yet delivered again
    fresh,           \* fresh deliveries handed over so far
    wk,              \* the worker goroutines
    sinkJobs,        \* the notification goroutines
    hist             \* per envelope id: what happened to its lineage

vars ==
    <<ctxDone, mainPc, sup, rabbitConnected, currentCh, openCh, connOpen, sessions,
      dialFailures, taskCh, taskChClosed, done, brokerQ, fresh, wk, sinkJobs, hist,
      reg, libVars>>

\* the consumer, its pool and the registry
coreVars ==
    <<ctxDone, mainPc, sup, rabbitConnected, currentCh, openCh, connOpen, sessions,
      dialFailures, taskCh, taskChClosed, done, brokerQ, fresh, wk, sinkJobs, hist,
      reg>>

supVars == <<sup, rabbitConnected, currentCh, openCh, connOpen, sessions, dialFailures>>

Ids == 1..(MaxFresh + MaxPlain)

GarbageBody == [kind |-> "garbage", env |-> ZeroEnvelope]

NoDelivery == [body |-> GarbageBody, exchange |-> "", rk |-> ""]

NoPublishing ==
    [made |-> FALSE, ok |-> FALSE, exchange |-> "", rk |-> "", body |-> GarbageBody,
     xdelay |-> 0, DeliveryMode |-> ""]

IdleWorker ==
    [pc |-> "idle", d |-> NoDelivery, hran |-> FALSE, herr |-> "none", hslow |-> FALSE,
     res |-> NoResult, called |-> "none", started |-> "none", sockudo |-> 0,
     webhook |-> 0, pubCh |-> 0, pub |-> NoPublishing, acks |-> 0, nacks |-> 0,
     requeue |-> FALSE]

NoHistory ==
    [first |-> GarbageBody, seen |-> FALSE, runs |-> 0, fails |-> 0, pubs |-> <<>>,
     pubMiss |-> FALSE, acks |-> 0, nacks |-> 0, errCalls |-> 0, okCalls |-> 0,
     recv |-> 0]

\* the exchanges a message in the logger queue can have been published to: the
\* default exchange (publisher) and the celery exchange the queue is bound to
Exchanges == {"", "celery"}

QueueName == "logger"

AttemptsIn == (-1)..MaxAttemptIn

MaxAttemptsIn == ((-1)..MaxMaxAttemptsIn) \cup {DefaultMaxAttempts}

BothSinks == [present |-> TRUE, sockudo |-> TRUE, webhook |-> TRUE]

\* the envelopes a producer can have put into the queue under id i: every
\* task, attempt and max_attempts, and every timeout and notify config
FreshEnvelopes(i) ==
    [id : {i}, task : TaskNames, payload : {"obj"}, attempt : AttemptsIn,
     max_attempts : MaxAttemptsIn, timeout_seconds : {0}, notify : {NoNotify, BothSinks}]
    \cup
    [id : {i}, task : {"logger", "job"}, payload : {"obj"}, attempt : {0},
     max_attempts : {1, 2}, timeout_seconds : {0, 1}, notify : NotifyConfigs]
    \cup
    [id : {i}, task : {"logger", "job"}, payload : WirePayloads, attempt : {0},
     max_attempts : {2}, timeout_seconds : {0}, notify : {NoNotify}]
    \cup
    {[id |-> i, task |-> "job", payload |-> "obj", attempt |-> a, max_attempts |-> a + 2,
      timeout_seconds |-> 0, notify |-> NoNotify] : a \in {LateAttempt, HugeAttempt}}

FreshBodies(i) ==
    {[kind |-> "native", env |-> e] : e \in FreshEnvelopes(i)}
    \cup {[kind |-> "celery", env |-> e] :
            e \in {x \in FreshEnvelopes(i) : x.task = "logger" /\ x.attempt = 0
                                             /\ x.max_attempts = 0
                                             /\ x.timeout_seconds = 0
                                             /\ x.notify = NoNotify}}
    \cup {GarbageBody}

\* the bodies the producers of a deployment put into the queue
CommonBodies(i) ==
    {[kind |-> "native",
      env |-> [id |-> i, task |-> "job", payload |-> "obj", attempt |-> a,
               max_attempts |-> m,
               timeout_seconds |-> 0, notify |-> n]] :
        a \in {0}, m \in {1, 2}, n \in {NoNotify, BothSinks}}
    \cup {GarbageBody}

(***************************************************************************)
(* The publisher (internal/publisher).                                     *)
(***************************************************************************)
\* &RabbitMQPublisher{}: no connection, no channel
ZeroPublisher ==
    [conn |-> "nil", ch |-> "nil", uuids |-> 0, ops |-> <<>>,
     call |-> [fn |-> "none"], ret |-> [id |-> 0, err |-> "none"]]

\* goroutines that call Send on the one OAuthClient of the dispatcher
Senders == 1..NumSenders

NoSend ==
    [pc |-> "idle", ovrID |-> "", ovrScope |-> "", req |-> [made |-> FALSE],
     tok |-> 0, ans |-> "none", err |-> "none"]

\* NewOAuthClient: no token, the zero expiry; the clock stands at 0 minutes
NewOAuthClient ==
    [token |-> 0, expiresAt |-> 0, fetchedAt |-> 0, writer |-> 0, issued |-> 0,
     now |-> 0, ticks |-> 0, calls |-> [c \in Senders |-> NoSend]]

NoLoggerCall ==
    [pc |-> "idle", env |-> ZeroEnvelope, decodable |-> FALSE,
     seen |-> [flag |-> FALSE, handle |-> "nil"], inserts |-> 0, herr |-> "none",
     res |-> NoResult]

NoRequest ==
    [pc |-> "idle", ping |-> "none", code |-> 0, status |-> "", database |-> FALSE,
     rabbitmq |-> FALSE]

\* the package before Connect: var DB *gorm.DB is nil, dbConnected is 0
DatabaseAtStart ==
    [flag |-> FALSE, handle |-> "nil", connect |-> "start", reconnecting |-> "no",
     close |-> "idle", clearing |-> FALSE, lg |-> NoLoggerCall, hc |-> NoRequest]

LibInit ==
    /\ rmq = ZeroPublisher
    /\ oauth = NewOAuthClient
    /\ db = DatabaseAtStart
    /\ bp = [pc |-> "unstarted", concurrency |-> 0, bufferSize |-> 0, session |-> 0,
             live |-> FALSE, qos |-> FALSE, unacked |-> 0, buf |-> <<>>,
             handling |-> <<>>]

Init ==
    /\ ctxDone = FALSE
    /\ mainPc = "running"
    /\ sup = [pc |-> "top", delay |-> InitialDialDelay, d |-> NoDelivery, qos |-> FALSE,
              wait |-> 0, streak |-> 0]
    /\ rabbitConnected = FALSE
    /\ currentCh = 0
    /\ openCh = 0
    /\ connOpen = FALSE
    /\ sessions = 0
    /\ dialFailures = 0
    /\ taskCh = <<>>
    /\ taskChClosed = FALSE
    /\ done = FALSE
    /\ brokerQ = <<>>
    /\ fresh = 0
    /\ wk = [w \in Workers |-> IdleWorker]
    /\ sinkJobs = {}
    /\ hist = [i \in Ids |-> NoHistory]
    /\ reg = RegistryAtStart
    /\ LibInit

\* the process runs: main has not returned and no goroutine has panicked
Alive == mainPc \in {"running", "waiting"}

(***************************************************************************)
(* The supervisor goroutine of StartConsumer.                              *)
(***************************************************************************)
\* what the supervisor, main and the producers leave alone
workerVars == <<wk, brokerQ, sinkJobs, hist, reg, libVars>>

NextDelay(delay) ==
    IF delay < MaxDialDelay
    THEN (IF delay * 2 > MaxDialDelay THEN MaxDialDelay ELSE delay * 2)
    ELSE delay

\* the select at the head of the loop: shut down, or go on to dial
SupLoopTop ==
    /\ Alive /\ sup.pc = "top"
    /\ IF ctxDone
       THEN /\ rabbitConnected' = FALSE
            /\ sup' = [sup EXCEPT !.pc = "return"]
       ELSE /\ sup' = [sup EXCEPT !.pc = "dial"]
            /\ UNCHANGED rabbitConnected
    /\ UNCHANGED <<ctxDone, mainPc, currentCh, openCh, connOpen, sessions, dialFailures,
                   taskCh, taskChClosed, done, fresh>>
    /\ UNCHANGED workerVars

\* amqp.Dial fails, at most n times in a run and whenever the context is
\* cancelled already: the supervisor goes to wait for the current delay
\* (wait), after streak failed dials in a row
DialFails(n) ==
    /\ Alive /\ sup.pc = "dial"
    /\ dialFailures < n \/ ctxDone
    /\ dialFailures' = IF dialFailures < n THEN dialFailures + 1 ELSE dialFailures
    /\ sup' = [sup EXCEPT !.pc = "backoff", !.wait = sup.delay, !.streak = @ + 1]
    /\ UNCHANGED <<ctxDone, mainPc, rabbitConnected, currentCh, openCh, connOpen,
                   sessions, taskCh, taskChClosed, done, fresh>>
    /\ UNCHANGED workerVars

SupDialFail == DialFails(MaxDialFailures)

SupDialFailLong == DialFails(MaxDialStreak)

\* the backoff select: the timer fires and the delay doubles up to the cap
SupBackoffWake ==
    /\ Alive /\ sup.pc = "backoff"
    /\ sup' = [sup EXCEPT !.pc = "top", !.delay = NextDelay(sup.delay), !.wait = 0]
    /\ UNCHANGED <<ctxDone, mainPc, rabbitConnected, currentCh, openCh, connOpen,
                   sessions, dialFailures, taskCh, taskChClosed, done, fresh>>
    /\ UNCHANGED workerVars

\* the backoff select: the context is cancelled
SupBackoffCancel ==
    /\ Alive /\ sup.pc = "backoff" /\ ctxDone
    /\ sup' = [sup EXCEPT !.pc = "return", !.wait = 0]
    /\ UNCHANGED <<ctxDone, mainPc, rabbitConnected, currentCh, openCh, connOpen,
                   sessions, dialFailures, taskCh, taskChClosed, done, fresh>>
    /\ UNCHANGED workerVars

SupDialOk ==
    /\ Alive /\ sup.pc = "dial"
    /\ sessions < MaxSessions
    /\ sessions' = sessions + 1
    /\ connOpen' = TRUE
    /\ rabbitConnected' = TRUE
    /\ sup' = [sup EXCEPT !.pc = "channel", !.streak = 0]
    /\ UNCHANGED <<ctxDone, mainPc, currentCh, openCh, dialFailures, taskCh,
                   taskChClosed, done, fresh>>
    /\ UNCHANGED workerVars

\* conn.Channel() fails: close the connection and loop
SupChannelFail ==
    /\ Alive /\ sup.pc = "channel"
    /\ connOpen' = FALSE
    /\ rabbitConnected' = FALSE
    /\ sup' = [sup EXCEPT !.pc = "top"]
    /\ UNCHANGED <<ctxDone, mainPc, currentCh, openCh, sessions, dialFailures, taskCh,
                   taskChClosed, done, fresh>>
    /\ UNCHANGED workerVars

\* conn.Channel() succeeds: the channel becomes the shared reference
SupChannelOk ==
    /\ Alive /\ sup.pc = "channel"
    /\ openCh' = sessions
    /\ currentCh' = sessions
    /\ sup' = [sup EXCEPT !.pc = "declare"]
    /\ UNCHANGED <<ctxDone, mainPc, rabbitConnected, connOpen, sessions, dialFailures,
                   taskCh, taskChClosed, done, fresh>>
    /\ UNCHANGED workerVars

\* Qos (its error is only logged), then a declare, bind or consume step fails
SupDeclareFail ==
    /\ Alive /\ sup.pc = "declare"
    /\ \E q \in BOOLEAN : sup' = [sup EXCEPT !.pc = "top", !.qos = q]
    /\ openCh' = 0
    /\ connOpen' = FALSE
    /\ rabbitConnected' = FALSE
    /\ UNCHANGED <<ctxDone, mainPc, currentCh, sessions, dialFailures, taskCh,
                   taskChClosed, done, fresh>>
    /\ UNCHANGED workerVars

\* Qos, the declares, the bind and Consume succeed: the delay is reset
SupDeclareOk ==
    /\ Alive /\ sup.pc = "declare"
    /\ \E q \in BOOLEAN :
          sup' = [sup EXCEPT !.pc = "consuming", !.qos = q, !.delay = InitialDialDelay]
    /\ UNCHANGED <<ctxDone, mainPc, rabbitConnected, currentCh, openCh, connOpen,
                   sessions, dialFailures, taskCh, taskChClosed, done, fresh>>
    /\ UNCHANGED workerVars

\* the consuming select: the context is cancelled
SupConsumeCancel ==
    /\ Alive /\ sup.pc = "consuming" /\ ctxDone
    /\ currentCh' = 0
    /\ openCh' = 0
    /\ connOpen' = FALSE
    /\ rabbitConnected' = FALSE
    /\ sup' = [sup EXCEPT !.pc = "return"]
    /\ UNCHANGED <<ctxDone, mainPc, sessions, dialFailures, taskCh, taskChClosed, done,
                   fresh>>
    /\ UNCHANGED workerVars

\* a Reconnect that leaves the shared reference as it is
SupReconnectKeepsReference ==
    /\ Alive /\ sup.pc = "consuming" /\ ~connOpen
    /\ openCh' = 0
    /\ rabbitConnected' = FALSE
    /\ sup' = [sup EXCEPT !.pc = "top"]
    /\ UNCHANGED <<ctxDone, mainPc, currentCh, connOpen, sessions, dialFailures, taskCh,
                   taskChClosed, done, fresh>>
    /\ UNCHANGED workerVars

\* the consuming select: the close notice arrives or msgs is closed: Reconnect
SupReconnect ==
    /\ Alive /\ sup.pc = "consuming" /\ ~connOpen
    /\ currentCh' = 0
    /\ openCh' = 0
    /\ rabbitConnected' = FALSE
    /\ sup' = [sup EXCEPT !.pc = "top"]
    /\ UNCHANGED <<ctxDone, mainPc, connOpen, sessions, dialFailures, taskCh,
                   taskChClosed, done, fresh>>
    /\ UNCHANGED workerVars

\* the consuming select: a delivery arrives on msgs
SupReceive ==
    /\ Alive /\ sup.pc = "consuming" /\ connOpen
    /\ brokerQ # <<>>
    /\ sup' = [sup EXCEPT !.pc = "sending", !.d = Head(brokerQ)]
    /\ brokerQ' = Tail(brokerQ)
    /\ hist' = IF Head(brokerQ).body.kind = "native"
               THEN [hist EXCEPT ![Head(brokerQ).body.env.id].recv = @ + 1]
               ELSE hist
    /\ UNCHANGED <<ctxDone, mainPc, rabbitConnected, currentCh, openCh, connOpen,
                   sessions, dialFailures, taskCh, taskChClosed, done, fresh, wk,
                   sinkJobs, reg, libVars>>

\* the inner select: the delivery goes into taskCh
SupSend ==
    /\ Alive /\ sup.pc = "sending"
    /\ Len(taskCh) < BufferSize
    /\ taskCh' = Append(taskCh, sup.d)
    /\ sup' = [sup EXCEPT !.pc = "consuming", !.d = NoDelivery]
    /\ UNCHANGED <<ctxDone, mainPc, rabbitConnected, currentCh, openCh, connOpen,
                   sessions, dialFailures, taskChClosed, done, fresh>>
    /\ UNCHANGED workerVars

\* the inner select: the context is cancelled, the supervisor returns as it is
SupSendCancel ==
    /\ Alive /\ sup.pc = "sending" /\ ctxDone
    /\ sup' = [sup EXCEPT !.pc = "return", !.d = NoDelivery]
    /\ UNCHANGED <<ctxDone, mainPc, rabbitConnected, currentCh, openCh, connOpen,
                   sessions, dialFailures, taskCh, taskChClosed, done, fresh>>
    /\ UNCHANGED workerVars

\* the broker or the network closes the connection of the session
ConnectionLost ==
    /\ Alive /\ sup.pc \in {"consuming", "sending"} /\ connOpen
    /\ connOpen' = FALSE
    /\ openCh' = 0
    /\ UNCHANGED <<ctxDone, mainPc, sup, rabbitConnected, currentCh, sessions,
                   dialFailures, taskCh, taskChClosed, done, fresh>>
    /\ UNCHANGED workerVars

\* deferred close(taskCh)
SupCloseTaskCh ==
    /\ Alive /\ sup.pc = "return"
    /\ taskChClosed' = TRUE
    /\ sup' = [sup EXCEPT !.pc = "wait"]
    /\ UNCHANGED <<ctxDone, mainPc, rabbitConnected, currentCh, openCh, connOpen,
                   sessions, dialFailures, taskCh, done, fresh>>
    /\ UNCHANGED workerVars

\* a close(done) that does not wait for the workers
SupCloseDoneEarly ==
    /\ Alive /\ sup.pc = "wait"
    /\ done' = TRUE
    /\ sup' = [sup EXCEPT !.pc = "exited"]
    /\ UNCHANGED <<ctxDone, mainPc, rabbitConnected, currentCh, openCh, connOpen,
                   sessions, dialFailures, taskCh, taskChClosed, fresh>>
    /\ UNCHANGED workerVars

\* deferred wg.Wait() and close(done)
SupCloseDone ==
    /\ Alive /\ sup.pc = "wait"
    /\ \A w \in Workers : wk[w].pc = "exited"
    /\ done' = TRUE
    /\ sup' = [sup EXCEPT !.pc = "exited"]
    /\ UNCHANGED <<ctxDone, mainPc, rabbitConnected, currentCh, openCh, connOpen,
                   sessions, dialFailures, taskCh, taskChClosed, fresh>>
    /\ UNCHANGED workerVars

(***************************************************************************)
(* The producers: a message is published into the logger queue.            *)
(***************************************************************************)
Published(b, x) ==
    /\ fresh' = fresh + 1
    /\ brokerQ' = Append(brokerQ, [body |-> b, exchange |-> x, rk |-> QueueName])
    /\ hist' = [hist EXCEPT ![fresh + 1] = [NoHistory EXCEPT !.first = b, !.seen = TRUE]]
    /\ UNCHANGED <<ctxDone, mainPc, taskCh, taskChClosed, done, wk, sinkJobs, reg,
                   libVars>>
    /\ UNCHANGED supVars

\* a producer of the deployment publishes through the celery exchange
Produce ==
    /\ Alive /\ fresh < MaxFresh
    /\ \E b \in CommonBodies(fresh + 1) : Published(b, "celery")

\* a producer publishes an envelope with one attempt and no notify config
ProducePlain ==
    /\ Alive /\ fresh < MaxPlain
    /\ \E b \in {x \in CommonBodies(fresh + 1) :
                     /\ x.kind = "native" /\ x.env.max_attempts = 1
                     /\ ~x.env.notify.present} :
          Published(b, "celery")

\* any producer publishes any body through either exchange
ProduceAny ==
    /\ Alive /\ fresh < MaxFresh
    /\ \E b \in FreshBodies(fresh + 1), x \in Exchanges : Published(b, x)

(***************************************************************************)
(* main: the signal, the wait for the consumer, the exit of the process.   *)
(***************************************************************************)
\* SIGINT or SIGTERM cancels the context; main goes on to wait for done
Signal ==
    /\ mainPc = "running"
    /\ ctxDone' = TRUE
    /\ mainPc' = "waiting"
    /\ UNCHANGED <<taskCh, taskChClosed, done, fresh>>
    /\ UNCHANGED supVars
    /\ UNCHANGED workerVars

\* done is closed, or the 10 s timer fires; main closes the database and
\* returns, which ends every goroutine of the process
MainExit ==
    /\ mainPc = "waiting"
    /\ mainPc' = "exited"
    /\ UNCHANGED <<ctxDone, taskCh, taskChClosed, done, fresh>>
    /\ UNCHANGED supVars
    /\ UNCHANGED workerVars

(***************************************************************************)
(* The worker goroutines: take, Dispatch, settle.                          *)
(***************************************************************************)
envVars == <<ctxDone, rabbitConnected, currentCh, openCh, connOpen, sessions,
             dialFailures, sup, taskChClosed, done, fresh, reg, libVars>>

\* the envelope of the delivery worker w holds (it decoded)
EnvOf(w) == Decode(wk[w].d.body).env

\* the select of the worker loop: a delivery is taken from taskCh
WorkerTake(w) ==
    /\ Alive /\ wk[w].pc = "idle"
    /\ taskCh # <<>>
    /\ wk' = [wk EXCEPT ![w] = [IdleWorker EXCEPT !.pc = "dispatch", !.d = Head(taskCh)]]
    /\ taskCh' = Tail(taskCh)
    /\ UNCHANGED <<mainPc, brokerQ, sinkJobs, hist>>
    /\ UNCHANGED envVars

\* the select of the worker loop: the context is done, or taskCh is closed
WorkerExit(w) ==
    /\ Alive /\ wk[w].pc = "idle"
    /\ ctxDone \/ (taskChClosed /\ taskCh = <<>>)
    /\ wk' = [wk EXCEPT ![w].pc = "exited"]
    /\ UNCHANGED <<mainPc, taskCh, brokerQ, sinkJobs, hist>>
    /\ UNCHANGED envVars

\* Dispatch up to the return of the handler
WorkerHandle(w) ==
    /\ Alive /\ wk[w].pc = "dispatch"
    /\ LET dec == Decode(wk[w].d.body)
           env == dec.env
       IN  IF ~dec.ok
           THEN /\ wk' = [wk EXCEPT ![w].pc = "settle", ![w].res = ParseFailure]
                /\ UNCHANGED hist
           ELSE IF ~LookupTask(env.task)
           THEN /\ wk' = [wk EXCEPT ![w].pc = "settle", ![w].res = UnknownTask]
                /\ UNCHANGED hist
           ELSE \E beh \in HandlerBehaviours(env.task) :
                  \E r \in HandlerReturns(beh, env, ctxDone) :
                     /\ wk' = [wk EXCEPT ![w].pc = "handled", ![w].hran = TRUE,
                                         ![w].herr = r,
                                         ![w].hslow = (beh.slow /\ HasDeadline(env))]
                     /\ hist' = [hist EXCEPT
                                   ![env.id].runs = @ + 1,
                                   ![env.id].fails = @ + (IF r = "ok" THEN 0 ELSE 1)]
    /\ UNCHANGED <<mainPc, taskCh, brokerQ, sinkJobs>>
    /\ UNCHANGED envVars

\* a Dispatch that returns its verdict without having started the goroutines
WorkerVerdictDeferred(w) ==
    /\ Alive /\ wk[w].pc = "handled"
    /\ LET env == EnvOf(w)
           status == NotifyCall(env, wk[w].herr)
       IN  /\ wk' = [wk EXCEPT
                       ![w].pc = "settle",
                       ![w].res = HandlerVerdict(env, wk[w].herr),
                       ![w].called = status,
                       ![w].started = IF env.notify.present THEN status ELSE "none"]
           /\ UNCHANGED <<sinkJobs, hist>>
    /\ UNCHANGED <<mainPc, taskCh, brokerQ>>
    /\ UNCHANGED envVars

\* Dispatch from the return of the handler: the verdict and the call of notify
WorkerVerdict(w) ==
    /\ Alive /\ wk[w].pc = "handled"
    /\ LET env == EnvOf(w)
           status == NotifyCall(env, wk[w].herr)
           jobs == IF status = "none" THEN {} ELSE notify(env, status)
       IN  /\ wk' = [wk EXCEPT
                       ![w].pc = "settle",
                       ![w].res = HandlerVerdict(env, wk[w].herr),
                       ![w].called = status,
                       ![w].started = IF env.notify.present THEN status ELSE "none",
                       ![w].sockudo = Cardinality({j \in jobs : j.sink = "sockudo"}),
                       ![w].webhook = Cardinality({j \in jobs : j.sink = "webhook"})]
           /\ sinkJobs' = sinkJobs \cup jobs
           /\ hist' = [hist EXCEPT
                         ![env.id].errCalls = @ + (IF status = "error" THEN 1 ELSE 0),
                         ![env.id].okCalls = @ + (IF status = "success" THEN 1 ELSE 0)]
    /\ UNCHANGED <<mainPc, taskCh, brokerQ>>
    /\ UNCHANGED envVars

\* d.Ack(false)
Acked(w, h) ==
    /\ wk' = [wk EXCEPT ![w].pc = "settled", ![w].acks = @ + 1]
    /\ hist' = IF h THEN [hist EXCEPT ![EnvOf(w).id].acks = @ + 1] ELSE hist

\* d.Nack(false, false)
Nacked(w, h, miss) ==
    /\ wk' = [wk EXCEPT ![w].pc = "settled", ![w].nacks = @ + 1, ![w].requeue = FALSE]
    /\ hist' = IF h THEN [hist EXCEPT ![EnvOf(w).id].nacks = @ + 1,
                                      ![EnvOf(w).id].pubMiss = @ \/ miss]
               ELSE hist

\* the worker applies the verdict, up to the read of the shared channel
WorkerSettle(w) ==
    /\ Alive /\ wk[w].pc = "settle"
    /\ LET res == wk[w].res
           dec == Decode(wk[w].d.body)
       IN  IF res.Success
           THEN Acked(w, TRUE) /\ UNCHANGED mainPc
           ELSE IF res.Retry
           THEN IF ~dec.ok
                THEN Nacked(w, FALSE, FALSE) /\ UNCHANGED mainPc
                ELSE IF ShiftPanics(res.RetryAttempt)
                THEN /\ wk' = [wk EXCEPT ![w].pc = "panicked"]
                     /\ mainPc' = "crashed"
                     /\ UNCHANGED hist
                ELSE IF currentCh = 0
                THEN Nacked(w, TRUE, TRUE) /\ UNCHANGED mainPc
                ELSE /\ wk' = [wk EXCEPT ![w].pc = "publish", ![w].pubCh = currentCh]
                     /\ UNCHANGED <<mainPc, hist>>
           ELSE Nacked(w, dec.ok /\ LookupTask(dec.env.task), FALSE) /\ UNCHANGED mainPc
    /\ UNCHANGED <<taskCh, brokerQ, sinkJobs>>
    /\ UNCHANGED envVars

\* a republish that leaves the attempt of the delivered envelope in place
RetryPublishingSameAttempt(d, attempt, ok) ==
    [made |-> TRUE, ok |-> ok, exchange |-> d.exchange, rk |-> d.rk,
     body |-> d.body, xdelay |-> BackoffMs(attempt), DeliveryMode |-> "transient"]

\* the Publishing of the retry path: content type, body and the x-delay
\* header are set; DeliveryMode is left at its zero value, which is transient
RetryPublishing(d, attempt, ok) ==
    [made |-> TRUE, ok |-> ok, exchange |-> d.exchange, rk |-> d.rk,
     body |-> Encode([Decode(d.body).env EXCEPT !.attempt = attempt]),
     xdelay |-> BackoffMs(attempt), DeliveryMode |-> "transient"]

\* pubCh.Publish, then Ack on success and Nack on failure
WorkerPublish(w) ==
    /\ Alive /\ wk[w].pc = "publish"
    /\ \E ok \in BOOLEAN :
          /\ ok => wk[w].pubCh = openCh
          /\ LET p == RetryPublishing(wk[w].d, wk[w].res.RetryAttempt, ok)
                 id == EnvOf(w).id
             IN  IF ok
                 THEN /\ brokerQ' = Append(brokerQ,
                                       [body |-> p.body, exchange |-> p.exchange,
                                        rk |-> p.rk])
                      /\ wk' = [wk EXCEPT ![w].pc = "settled", ![w].pub = p,
                                          ![w].acks = @ + 1]
                      /\ hist' = [hist EXCEPT
                                    ![id].acks = @ + 1,
                                    ![id].pubs = Append(@,
                                        [attempt |-> p.body.env.attempt,
                                         max_attempts |-> p.body.env.max_attempts,
                                         xdelay |-> p.xdelay, exchange |-> p.exchange])]
                 ELSE /\ UNCHANGED brokerQ
                      /\ wk' = [wk EXCEPT ![w].pc = "settled", ![w].pub = p,
                                          ![w].nacks = @ + 1, ![w].requeue = FALSE]
                      /\ hist' = [hist EXCEPT ![id].nacks = @ + 1,
                                              ![id].pubMiss = TRUE]
    /\ UNCHANGED <<mainPc, taskCh, sinkJobs>>
    /\ UNCHANGED envVars

\* back to the head of the worker loop
WorkerLoop(w) ==
    /\ Alive /\ wk[w].pc = "settled"
    /\ wk' = [wk EXCEPT ![w] = IdleWorker]
    /\ UNCHANGED <<mainPc, taskCh, brokerQ, sinkJobs, hist>>
    /\ UNCHANGED envVars

(***************************************************************************)
(* The notification goroutines started by notify.                          *)
(***************************************************************************)
\* the goroutine runs: context.WithTimeout(context.Background(), 10 s) and
\* the call of Broadcast or Send
SinkInvoke(j) ==
    /\ Alive /\ j \in sinkJobs /\ j.st = "spawned"
    /\ sinkJobs' = (sinkJobs \ {j}) \cup {[j EXCEPT !.st = "calling"]}
    /\ UNCHANGED <<mainPc, taskCh, wk, brokerQ, hist>>
    /\ UNCHANGED envVars

\* a sink call whose failure is charged to the delivery
SinkReturnCharged(j) ==
    /\ Alive /\ j \in sinkJobs /\ j.st = "calling"
    /\ \E failed \in BOOLEAN :
          /\ sinkJobs' = (sinkJobs \ {j}) \cup
                           {[j EXCEPT !.st = IF failed THEN "failed" ELSE "delivered"]}
          /\ hist' = IF failed THEN [hist EXCEPT ![j.id].nacks = @ + 1] ELSE hist
    /\ UNCHANGED <<mainPc, taskCh, wk, brokerQ>>
    /\ UNCHANGED envVars

\* the sink call returns; an error (or the expiry of the 10 s) is logged
SinkReturn(j) ==
    /\ Alive /\ j \in sinkJobs /\ j.st = "calling"
    /\ \E failed \in BOOLEAN :
          sinkJobs' = (sinkJobs \ {j}) \cup
                        {[j EXCEPT !.st = IF failed THEN "failed" ELSE "delivered"]}
    /\ UNCHANGED <<mainPc, taskCh, wk, brokerQ, hist>>
    /\ UNCHANGED envVars

(***************************************************************************)
(* The task registry: RegisterTask, LookupTask and ClearRegistry called by *)
(* goroutines of the program or of a test.                                 *)
(***************************************************************************)
consumerVars ==
    <<ctxDone, mainPc, sup, rabbitConnected, currentCh, openCh, connOpen, sessions,
      dialFailures, taskCh, taskChClosed, done, brokerQ, fresh, wk, sinkJobs, hist,
      libVars>>

\* mu.Lock() of RegisterTask
RegisterLock(c, n, h) ==
    /\ reg.calls[c].pc = "idle"
    /\ reg.writer = 0 /\ reg.readers = {}
    /\ reg' = [reg EXCEPT !.writer = c,
                          !.calls[c] = [pc |-> "register", name |-> n, h |-> h,
                                        op |-> "register", out |-> "none"]]
    /\ UNCHANGED consumerVars

\* a RegisterTask that stores the handler whether or not the name is taken
RegisterBodyOverwrite(c) ==
    /\ reg.calls[c].pc = "register"
    /\ reg' = [reg EXCEPT !.map[reg.calls[c].name] = reg.calls[c].h,
                          !.writer = 0,
                          !.calls[c].pc = "idle",
                          !.calls[c].out = "ok"]
    /\ UNCHANGED consumerVars

\* the body of RegisterTask: panic on a taken name, else store; the deferred
\* mu.Unlock() runs either way
RegisterBody(c) ==
    /\ reg.calls[c].pc = "register"
    /\ IF reg.map[reg.calls[c].name] # NoHandler
       THEN reg' = [reg EXCEPT !.writer = 0,
                               !.calls[c].pc = "idle",
                               !.calls[c].out = "panic"]
       ELSE reg' = [reg EXCEPT !.map[reg.calls[c].name] = reg.calls[c].h,
                               !.writer = 0,
                               !.calls[c].pc = "idle",
                               !.calls[c].out = "ok"]
    /\ UNCHANGED consumerVars

\* mu.RLock() of LookupTask
LookupLock(c, n) ==
    /\ reg.calls[c].pc = "idle"
    /\ reg.writer = 0
    /\ reg' = [reg EXCEPT !.readers = @ \cup {c},
                          !.calls[c] = [pc |-> "lookup", name |-> n, h |-> NoHandler,
                                        op |-> "lookup", out |-> "none"]]
    /\ UNCHANGED consumerVars

\* the body of LookupTask and the deferred mu.RUnlock()
LookupBody(c) ==
    /\ reg.calls[c].pc = "lookup"
    /\ reg' = [reg EXCEPT !.readers = @ \ {c},
                          !.calls[c].pc = "idle",
                          !.calls[c].out = reg.map[reg.calls[c].name]]
    /\ UNCHANGED consumerVars

\* mu.Lock() of ClearRegistry
ClearLock(c) ==
    /\ reg.calls[c].pc = "idle"
    /\ reg.writer = 0 /\ reg.readers = {}
    /\ reg' = [reg EXCEPT !.writer = c,
                          !.calls[c] = [pc |-> "clear", name |-> "", h |-> NoHandler,
                                        op |-> "clear", out |-> "none"]]
    /\ UNCHANGED consumerVars

\* the body of ClearRegistry and the deferred mu.Unlock()
ClearBody(c) ==
    /\ reg.calls[c].pc = "clear"
    /\ reg' = [reg EXCEPT !.map = EmptyRegistry,
                          !.writer = 0,
                          !.calls[c].pc = "idle",
                          !.calls[c].out = "ok"]
    /\ UNCHANGED consumerVars

NextRegistry ==
    \E c \in Callers :
        \/ \E n \in TaskNames, h \in Handlers : RegisterLock(c, n, h)
        \/ RegisterBody(c)
        \/ \E n \in TaskNames : LookupLock(c, n)
        \/ LookupBody(c)
        \/ ClearLock(c)
        \/ ClearBody(c)

SpecRegistry == Init /\ [][NextRegistry]_vars

(***************************************************************************)
(* The supervisor on its own: dial failures, sessions, losses, shutdown,   *)
(* with no message in the queue.                                           *)
(***************************************************************************)
NextDial ==
    \/ SupLoopTop \/ SupDialFailLong \/ SupBackoffWake \/ SupBackoffCancel \/ SupDialOk
    \/ SupChannelFail \/ SupChannelOk \/ SupDeclareFail \/ SupDeclareOk
    \/ SupConsumeCancel \/ SupReconnect \/ ConnectionLost
    \/ SupCloseTaskCh \/ SupCloseDone \/ Signal
    \/ \E w \in Workers : WorkerExit(w)

SpecDial == Init /\ [][NextDial]_vars

Next ==
    \/ SupLoopTop \/ SupDialFail \/ SupBackoffWake \/ SupBackoffCancel \/ SupDialOk
    \/ SupChannelFail \/ SupChannelOk \/ SupDeclareFail \/ SupDeclareOk
    \/ SupConsumeCancel \/ SupReconnect \/ SupReceive \/ Produce
    \/ SupSend \/ SupSendCancel \/ ConnectionLost \/ SupCloseTaskCh \/ SupCloseDone
    \/ Signal \/ MainExit
    \/ \E w \in Workers :
          \/ WorkerTake(w) \/ WorkerExit(w) \/ WorkerHandle(w) \/ WorkerVerdict(w)
          \/ WorkerSettle(w) \/ WorkerPublish(w) \/ WorkerLoop(w)
    \/ \E j \in sinkJobs : SinkInvoke(j) \/ SinkReturn(j)

Spec == Init /\ [][Next]_vars

\* the goroutines are scheduled: the supervisor takes a step when it can
\* (a dial, a timer, a select, a deferred call), and so does each worker
\* (a select, the handler returning, a publish, an ack or nack)
SupStep ==
    \/ SupLoopTop \/ SupDialFail \/ SupBackoffWake \/ SupBackoffCancel \/ SupDialOk
    \/ SupChannelFail \/ SupChannelOk \/ SupDeclareFail \/ SupDeclareOk
    \/ SupConsumeCancel \/ SupReconnect \/ SupReceive
    \/ SupSend \/ SupSendCancel \/ SupCloseTaskCh \/ SupCloseDone

WorkerStep(w) ==
    \/ WorkerTake(w) \/ WorkerExit(w) \/ WorkerHandle(w) \/ WorkerVerdict(w)
    \/ WorkerSettle(w) \/ WorkerPublish(w) \/ WorkerLoop(w)

\* the consumer starting, working and shutting down, with deliveries of a
\* single attempt that ask for no notification: no verdict is a retry, so no
\* worker comes to the republish step
NextShutdown ==
    \/ SupLoopTop \/ SupDialFail \/ SupBackoffWake \/ SupBackoffCancel \/ SupDialOk
    \/ SupChannelFail \/ SupChannelOk \/ SupDeclareFail \/ SupDeclareOk
    \/ SupConsumeCancel \/ SupReconnect \/ SupReceive \/ ProducePlain
    \/ SupSend \/ SupSendCancel \/ ConnectionLost \/ SupCloseTaskCh \/ SupCloseDone
    \/ Signal \/ MainExit
    \/ \E w \in Workers :
          \/ WorkerTake(w) \/ WorkerExit(w) \/ WorkerHandle(w) \/ WorkerVerdict(w)
          \/ WorkerSettle(w) \/ WorkerLoop(w)

SpecShutdown ==
    /\ Init /\ [][NextShutdown]_vars
    /\ WF_vars(SupStep)
    /\ \A w \in Workers : WF_vars(WorkerStep(w))

(***************************************************************************)
(* One broker session seen from the pool: the supervisor is consuming on   *)
(* its first session, any producer publishes, and the session may be lost. *)
(***************************************************************************)
InitPool ==
    /\ ctxDone = FALSE
    /\ mainPc = "running"
    /\ sup = [pc |-> "consuming", delay |-> InitialDialDelay, d |-> NoDelivery,
              qos |-> TRUE, wait |-> 0, streak |-> 0]
    /\ rabbitConnected = TRUE
    /\ currentCh = 1
    /\ openCh = 1
    /\ connOpen = TRUE
    /\ sessions = 1
    /\ dialFailures = 0
    /\ taskCh = <<>>
    /\ taskChClosed = FALSE
    /\ done = FALSE
    /\ brokerQ = <<>>
    /\ fresh = MaxFresh - 1
    /\ wk = [w \in Workers |-> IdleWorker]
    /\ sinkJobs = {}
    /\ hist = [i \in Ids |-> NoHistory]
    /\ reg = RegistryAtStart
    /\ LibInit

NextPool ==
    \/ ProduceAny \/ SupReceive \/ SupSend \/ ConnectionLost \/ SupReconnect
    \/ \E w \in Workers :
          \/ WorkerTake(w) \/ WorkerHandle(w) \/ WorkerVerdict(w)
          \/ WorkerSettle(w) \/ WorkerPublish(w) \/ WorkerLoop(w)
    \/ \E j \in sinkJobs : SinkInvoke(j) \/ SinkReturn(j)

SpecPool == InitPool /\ [][NextPool]_vars

(***************************************************************************)
(* The publisher: NewPublisher, SendCeleryTask, SendGoTask and Close of    *)
(* RabbitMQPublisher, each call as one step with the broker's answers.     *)
(***************************************************************************)
\* the task and queue arguments of a call; "" is the empty string
PubTasks == {"", "logger"}

PubQueues == {"", "logger"}

\* payload map[string]interface{}: nil, a map of JSON data, and a map holding
\* a value json.Marshal rejects (a channel, a NaN)
GoPayloads == {"nil", "obj", "unencodable"}

\* args []interface{}: nil, empty, JSON values, a value json.Marshal rejects
CeleryArgs == {"nil", "empty", "vals", "unencodable"}

\* a *int field of TaskOptions: nil, or a pointer to v
NilInt == [set |-> FALSE, v |-> 0]

PtrInt(v) == [set |-> TRUE, v |-> v]

\* Notify map[string]string: nil, empty, a map with the key webhook or sockudo
\* (a URL or channel name as the value), a map with other keys only
NotifyMaps == {"nil", "empty", "webhook", "sockudo", "other"}

\* options *TaskOptions: nil, or a pointer to a TaskOptions value
NoOptions ==
    [present |-> FALSE, TimeoutSeconds |-> NilInt, Notify |-> "nil", MaxAttempts |-> NilInt]

\* the options of a call: none, each field alone with each of its values,
\* and all fields together
TaskOptionsIn ==
    {NoOptions}
    \cup [present : {TRUE}, TimeoutSeconds : {NilInt, PtrInt(0), PtrInt(1)},
          Notify : {"nil"}, MaxAttempts : {NilInt}]
    \cup [present : {TRUE}, TimeoutSeconds : {NilInt}, Notify : NotifyMaps,
          MaxAttempts : {NilInt}]
    \cup [present : {TRUE}, TimeoutSeconds : {NilInt}, Notify : {"nil"},
          MaxAttempts : {PtrInt(0), PtrInt(3)}]
    \cup [present : {TRUE}, TimeoutSeconds : {PtrInt(1)}, Notify : {"empty", "other"},
          MaxAttempts : {PtrInt(3)}]

PublisherMaxAttempts == 5

\* the empty-name test at the head of both send functions, and one that
\* lets every name through
TaskNameNeverMissing(task) == FALSE

TaskNameMissing(task) == task = ""

\* queue defaults to "celery", and a version that leaves it empty
QueueAsGiven(queue) == queue

QueueOrDefault(queue) == IF queue = "" THEN "celery" ELSE queue

\* json.Marshal of a map or a slice: nil is written as null, the empty value
\* as {} or [], and a value with a channel or a NaN in it is an error
Marshalable(v) == v # "unencodable"

MarshalMap(m) == CASE m = "nil" -> "null" [] m = "empty" -> "{}" [] OTHER -> m

MarshalSlice(a) == CASE a = "nil" -> "null" [] a = "empty" -> "[]" [] OTHER -> a

\* the taskPayload map of SendGoTask as json.Marshal writes it; a key that
\* is not put into the map is absent from the object.  Below it, versions
\* that ignore the MaxAttempts option and that write timeout_seconds always
GoTaskBodyFixedAttempts(id, task, payload, options) ==
    [fmt |-> "object", version |-> "1.0", id |-> id, task |-> task,
     payload |-> MarshalMap(IF payload = "nil" THEN "empty" ELSE payload),
     created_at |-> "now", attempt |-> 0, max_attempts |-> PublisherMaxAttempts,
     timeout_seconds |-> IF options.present THEN options.TimeoutSeconds ELSE NilInt,
     notify |-> IF options.present /\ options.Notify # "nil"
                THEN options.Notify ELSE "absent"]

GoTaskBody(id, task, payload, options) ==
    [fmt |-> "object", version |-> "1.0", id |-> id, task |-> task,
     payload |-> MarshalMap(IF payload = "nil" THEN "empty" ELSE payload),
     created_at |-> "now", attempt |-> 0,
     max_attempts |-> IF options.present /\ options.MaxAttempts.set
                      THEN options.MaxAttempts.v ELSE PublisherMaxAttempts,
     timeout_seconds |-> IF options.present THEN options.TimeoutSeconds ELSE NilInt,
     notify |-> IF options.present /\ options.Notify # "nil"
                THEN options.Notify ELSE "absent"]

CeleryMeta ==
    [callbacks |-> "null", errbacks |-> "null", chain |-> "null", chord |-> "null"]

\* the three-element body of SendCeleryTask as json.Marshal writes it, and a
\* version without the replacement of nil args
CeleryBodyNilArgs(args) ==
    [fmt |-> "array", args |-> MarshalSlice(args), kwargs |-> "{}", meta |-> CeleryMeta]

CeleryBody(args) ==
    [fmt |-> "array", args |-> MarshalSlice(IF args = "nil" THEN "empty" ELSE args),
     kwargs |-> "{}", meta |-> CeleryMeta]

NoHeaders == [lang |-> "", task |-> "", id |-> 0, root_id |-> 0]

\* Headers of the Celery message, and a version whose root_id is left out
CeleryHeadersNoRoot(task, id) == [lang |-> "py", task |-> task, id |-> id, root_id |-> 0]

CeleryHeaders(task, id) == [lang |-> "py", task |-> task, id |-> id, root_id |-> id]

\* one operation on the publisher's channel and the broker's answer
DeclareOp(queue, ok) ==
    [op |-> "QueueDeclare", queue |-> queue, durable |-> TRUE, exchange |-> "",
     key |-> "", ok |-> ok]

PublishOp(exchange, key, msg, ok) ==
    [op |-> "Publish", queue |-> "", durable |-> FALSE, exchange |-> exchange,
     key |-> key, msg |-> msg, ok |-> ok]

\* the answers the broker can give on the publisher's channel: a closed
\* channel refuses every operation
BrokerAnswers == IF rmq.ch = "open" THEN BOOLEAN ELSE {FALSE}

\* the publisher after a call: the call, its operations, what it returned
Returned(call, uuids, ops, id, err) ==
    [rmq EXCEPT !.call = call, !.uuids = uuids, !.ops = ops,
                !.ret = [id |-> id, err |-> err],
                !.ch = IF \E k \in 1..Len(ops) : ~ops[k].ok THEN "closed" ELSE @]

NewPublisher ==
    /\ rmq.conn = "nil"
    /\ \E dialOk \in BOOLEAN, channelOk \in BOOLEAN :
          rmq' = IF dialOk /\ channelOk
                 THEN [ZeroPublisher EXCEPT !.conn = "open", !.ch = "open",
                                            !.call = [fn |-> "NewPublisher"]]
                 ELSE [ZeroPublisher EXCEPT
                          !.call = [fn |-> "NewPublisher"],
                          !.ret = [id |-> 0,
                                   err |-> IF dialOk THEN "failed to open channel"
                                           ELSE "failed to connect to RabbitMQ"]]
    /\ UNCHANGED <<coreVars, oauth, db, bp>>

SendCeleryTask(task, args, queue) ==
    /\ rmq.uuids < MaxUuids
    /\ LET call == [fn |-> "SendCeleryTask", task |-> task, args |-> args,
                    queue |-> queue]
           q == QueueOrDefault(queue)
           taskID == rmq.uuids + 1
           msg == [ContentType |-> "application/json", ContentEncoding |-> "utf-8",
                   DeliveryMode |-> "persistent", Body |-> CeleryBody(args),
                   Headers |-> CeleryHeaders(task, taskID), CorrelationId |-> taskID]
       IN  IF TaskNameMissing(task)
           THEN rmq' = Returned(call, rmq.uuids, <<>>, 0, "task name is required")
           ELSE IF rmq.ch = "nil"
           THEN rmq' = Returned(call, taskID, <<>>, 0, "panic")
           ELSE \E declared \in BrokerAnswers, published \in BOOLEAN :
                   rmq' =
                     IF ~declared
                     THEN Returned(call, taskID, <<DeclareOp(q, FALSE)>>, 0,
                                   "failed to declare queue")
                     ELSE IF ~Marshalable(args)
                     THEN Returned(call, taskID, <<DeclareOp(q, TRUE)>>, 0,
                                   "failed to marshal message body")
                     ELSE IF ~published
                     THEN Returned(call, taskID,
                                   <<DeclareOp(q, TRUE), PublishOp("celery", q, msg, FALSE)>>,
                                   0, "failed to publish message")
                     ELSE Returned(call, taskID,
                                   <<DeclareOp(q, TRUE), PublishOp("celery", q, msg, TRUE)>>,
                                   taskID, "none")
    /\ UNCHANGED <<coreVars, oauth, db, bp>>

SendGoTask(task, payload, queue, options) ==
    /\ rmq.uuids < MaxUuids
    /\ LET call == [fn |-> "SendGoTask", task |-> task, payload |-> payload,
                    queue |-> queue, options |-> options]
           q == QueueOrDefault(queue)
           taskID == rmq.uuids + 1
           msg == [ContentType |-> "application/json", ContentEncoding |-> "utf-8",
                   DeliveryMode |-> "persistent",
                   Body |-> GoTaskBody(taskID, task, payload, options),
                   Headers |-> NoHeaders, CorrelationId |-> 0]
       IN  IF TaskNameMissing(task)
           THEN rmq' = Returned(call, rmq.uuids, <<>>, 0, "task name is required")
           ELSE IF rmq.ch = "nil"
           THEN rmq' = Returned(call, taskID, <<>>, 0, "panic")
           ELSE \E declared \in BrokerAnswers, published \in BOOLEAN :
                   rmq' =
                     IF ~declared
                     THEN Returned(call, taskID, <<DeclareOp(q, FALSE)>>, 0,
                                   "failed to declare queue")
                     ELSE IF ~Marshalable(payload)
                     THEN Returned(call, taskID, <<DeclareOp(q, TRUE)>>, 0,
                                   "failed to marshal task payload")
                     ELSE IF ~published
                     THEN Returned(call, taskID,
                                   <<DeclareOp(q, TRUE), PublishOp("", q, msg, FALSE)>>,
                                   0, "failed to publish message")
                     ELSE Returned(call, taskID,
                                   <<DeclareOp(q, TRUE), PublishOp("", q, msg, TRUE)>>,
                                   taskID, "none")
    /\ UNCHANGED <<coreVars, oauth, db, bp>>

\* Close: the channel, then the connection; the first error is returned
PublisherClose ==
    /\ \E chOk \in BOOLEAN, connOk \in BOOLEAN :
          rmq' = [rmq EXCEPT
                    !.call = [fn |-> "Close"], !.ops = <<>>,
                    !.ch = IF @ = "nil" THEN @ ELSE "closed",
                    !.conn = IF @ = "nil" THEN @ ELSE "closed",
                    !.ret = [id |-> 0,
                             err |-> IF rmq.ch # "nil" /\ (~chOk \/ rmq.ch = "closed")
                                     THEN "failed to close channel"
                                     ELSE IF rmq.conn # "nil"
                                             /\ (~connOk \/ rmq.conn = "closed")
                                     THEN "failed to close connection"
                                     ELSE "none"]]
    /\ UNCHANGED <<coreVars, oauth, db, bp>>

\* json.Unmarshal(body, &envelope) of Dispatch on a body the publisher wrote:
\* the notify object is decoded into *NotifyConfig, whose sockudo and webhook
\* members are structs, so a JSON string under either key is a type error
\* and the call fails; keys the struct does not have are skipped; an absent
\* timeout_seconds leaves 0
UnmarshalPublished(b) ==
    IF b.fmt # "object" \/ b.notify \in {"webhook", "sockudo"}
    THEN [ok |-> FALSE, env |-> ZeroEnvelope]
    ELSE Decode([kind |-> "native",
                 env |-> [id |-> b.id, task |-> b.task,
                          payload |-> IF b.payload = "null" THEN "null" ELSE "obj",
                          attempt |-> b.attempt, max_attempts |-> b.max_attempts,
                          timeout_seconds |-> IF b.timeout_seconds.set
                                              THEN b.timeout_seconds.v ELSE 0,
                          notify |-> IF b.notify = "absent" THEN NoNotify
                                     ELSE [present |-> TRUE, sockudo |-> FALSE,
                                           webhook |-> FALSE]]])

\* json.Unmarshal of the args element of a Celery body, as a consumer of the
\* message reads it: null gives a nil slice, [] an empty one
UnmarshalSlice(j) == CASE j = "null" -> "nil" [] j = "[]" -> "empty" [] OTHER -> j

NextPublisher ==
    \/ NewPublisher
    \/ \E t \in PubTasks, a \in CeleryArgs, q \in PubQueues : SendCeleryTask(t, a, q)
    \/ \E t \in PubTasks, p \in GoPayloads, q \in PubQueues, o \in TaskOptionsIn :
          SendGoTask(t, p, q, o)
    \/ PublisherClose

SpecPublisher == Init /\ [][NextPublisher]_vars

(***************************************************************************)
(* The webhook client: Send, getToken and fetchToken of OAuthClient, with  *)
(* the RWMutex of the token cache and a clock counted in minutes.          *)
(***************************************************************************)
TokenTTL == 55

\* the override arguments of Send; "" is the empty string
Overrides == {"", "other"}

\* time passes: a minute, or a minute less than the lifetime of a token
ClockSteps == {1, TokenTTL - 1}

Tick ==
    /\ oauth.ticks < MaxTicks
    /\ \E d \in ClockSteps :
          oauth' = [oauth EXCEPT !.now = @ + d, !.ticks = @ + 1]
    /\ UNCHANGED <<coreVars, rmq, db, bp>>

\* c.token != "" && time.Now().Before(c.expiresAt), and a version that
\* still takes the token at the minute of its expiry
TokenValidAtExpiry == oauth.token # 0 /\ oauth.now <= oauth.expiresAt

TokenValid == oauth.token # 0 /\ oauth.now < oauth.expiresAt

\* the form fetchToken posts: an override replaces the client id or scope
TokenRequest(overrideID, overrideScope) ==
    [made |-> TRUE,
     client_id |-> IF overrideID # "" THEN overrideID ELSE "default",
     scope |-> IF overrideScope # "" THEN overrideScope ELSE "default"]

\* Send is called; getToken with an override goes to fetchToken at once
SendCall(s, overrideID, overrideScope) ==
    /\ oauth.calls[s].pc \in {"idle", "returned"}
    /\ IF overrideID # "" \/ overrideScope # ""
       THEN /\ oauth.issued < MaxTokens
            /\ oauth' = [oauth EXCEPT
                           !.calls[s] = [NoSend EXCEPT
                              !.pc = "fetching", !.ovrID = overrideID,
                              !.ovrScope = overrideScope,
                              !.req = TokenRequest(overrideID, overrideScope)]]
       ELSE oauth' = [oauth EXCEPT !.calls[s] = [NoSend EXCEPT !.pc = "rlock"]]
    /\ UNCHANGED <<coreVars, rmq, db, bp>>

\* the check under the read lock
GetTokenRLock(s) ==
    /\ oauth.calls[s].pc = "rlock"
    /\ oauth.writer = 0
    /\ oauth' = IF TokenValid
                THEN [oauth EXCEPT
                        !.calls[s].pc = "post", !.calls[s].tok = oauth.token]
                ELSE [oauth EXCEPT !.calls[s].pc = "lock"]
    /\ UNCHANGED <<coreVars, rmq, db, bp>>

\* c.mu.Lock()
GetTokenLock(s) ==
    /\ oauth.calls[s].pc = "lock"
    /\ oauth.writer = 0
    /\ oauth' = [oauth EXCEPT !.writer = s, !.calls[s].pc = "recheck"]
    /\ UNCHANGED <<coreVars, rmq, db, bp>>

\* the write lock taken and the token request sent with no second check
GetTokenNoRecheck(s) ==
    /\ oauth.calls[s].pc = "recheck"
    /\ oauth.issued < MaxTokens
    /\ oauth' = [oauth EXCEPT
                   !.calls[s].pc = "fetching",
                   !.calls[s].req = TokenRequest("", "")]
    /\ UNCHANGED <<coreVars, rmq, db, bp>>

\* the second check, under the write lock; a miss sends the token request
GetTokenRecheck(s) ==
    /\ oauth.calls[s].pc = "recheck"
    /\ IF TokenValid
       THEN oauth' = [oauth EXCEPT
                        !.writer = 0,
                        !.calls[s].pc = "post", !.calls[s].tok = oauth.token]
       ELSE /\ oauth.issued < MaxTokens
            /\ oauth' = [oauth EXCEPT
                           !.calls[s].pc = "fetching",
                           !.calls[s].req = TokenRequest("", "")]
    /\ UNCHANGED <<coreVars, rmq, db, bp>>

\* the answers of the token endpoint: no answer or a status other than 200,
\* a body that does not decode, a body without access_token, a token
TokenAnswers == {"failed", "undecodable", "empty", "token"}

\* a getToken that goes on with an empty token when the fetch has failed
FetchDefaultReturnNoError(s) ==
    /\ oauth.calls[s].pc = "fetching" /\ oauth.writer = s
    /\ \E a \in TokenAnswers :
          LET t == IF a = "token" THEN oauth.issued + 1 ELSE 0
          IN  oauth' = [oauth EXCEPT !.writer = 0,
                                     !.issued = @ + 1,
                                     !.token = t,
                                     !.expiresAt = oauth.now + TokenTTL,
                                     !.fetchedAt = oauth.now,
                                     !.calls[s].pc = "post",
                                     !.calls[s].tok = t, !.calls[s].ans = a]
    /\ UNCHANGED <<coreVars, rmq, db, bp>>

\* fetchToken returns to getToken, which stores the token and the expiry;
\* below it, the same for a fetch with overrides, which is returned as it
\* is, and a version of that which stores the token as well
FetchDefaultReturn(s) ==
    /\ oauth.calls[s].pc = "fetching" /\ oauth.writer = s
    /\ \E a \in TokenAnswers :
          oauth' =
            IF a \in {"failed", "undecodable"}
            THEN [oauth EXCEPT !.writer = 0,
                               !.calls[s] = [NoSend EXCEPT
                                               !.pc = "returned", !.ans = a,
                                               !.err = "failed to get token"]]
            ELSE LET t == IF a = "empty" THEN 0 ELSE oauth.issued + 1
                 IN  [oauth EXCEPT !.writer = 0,
                                   !.issued = @ + 1,
                                   !.token = t,
                                   !.expiresAt = oauth.now + TokenTTL,
                                   !.fetchedAt = oauth.now,
                                   !.calls[s].pc = "post",
                                   !.calls[s].tok = t, !.calls[s].ans = a]
    /\ UNCHANGED <<coreVars, rmq, db, bp>>

FetchOverrideReturnCached(s) ==
    /\ oauth.calls[s].pc = "fetching" /\ oauth.writer # s
    /\ \E a \in TokenAnswers :
          oauth' =
            IF a \in {"failed", "undecodable"}
            THEN [oauth EXCEPT !.calls[s] = [NoSend EXCEPT
                                               !.pc = "returned", !.ans = a,
                                               !.err = "failed to get token"]]
            ELSE LET t == IF a = "empty" THEN 0 ELSE oauth.issued + 1
                 IN  [oauth EXCEPT !.issued = @ + 1,
                                   !.token = t,
                                   !.expiresAt = oauth.now + TokenTTL,
                                   !.fetchedAt = oauth.now,
                                   !.calls[s].pc = "post",
                                   !.calls[s].tok = t, !.calls[s].ans = a]
    /\ UNCHANGED <<coreVars, rmq, db, bp>>

FetchOverrideReturn(s) ==
    /\ oauth.calls[s].pc = "fetching" /\ oauth.writer # s
    /\ \E a \in TokenAnswers :
          oauth' =
            IF a \in {"failed", "undecodable"}
            THEN [oauth EXCEPT !.calls[s] = [NoSend EXCEPT
                                               !.pc = "returned", !.ans = a,
                                               !.err = "failed to get token"]]
            ELSE LET t == IF a = "empty" THEN 0 ELSE oauth.issued + 1
                 IN  [oauth EXCEPT !.issued = @ + 1,
                                   !.calls[s].pc = "post",
                                   !.calls[s].tok = t, !.calls[s].ans = a]
    /\ UNCHANGED <<coreVars, rmq, db, bp>>

\* the rest of Send: the payload is marshalled and posted with the token
SendPost(s) ==
    /\ oauth.calls[s].pc = "post"
    /\ \E e \in {"none", "marshal", "transport", "status"} :
          oauth' = [oauth EXCEPT !.calls[s] = [NoSend EXCEPT !.pc = "returned",
                                                               !.err = e]]
    /\ UNCHANGED <<coreVars, rmq, db, bp>>

NextWebhook ==
    \/ Tick
    \/ \E s \in Senders :
          \/ \E i \in Overrides, sc \in Overrides : SendCall(s, i, sc)
          \/ GetTokenRLock(s) \/ GetTokenLock(s) \/ GetTokenRecheck(s)
          \/ FetchDefaultReturn(s) \/ FetchOverrideReturn(s)
          \/ SendPost(s)

SpecWebhook == Init /\ [][NextWebhook]_vars

(***************************************************************************)
(* The database package, the logger handler and the health endpoint.       *)
(* DB is a plain package variable: a reader that tests it and then uses it *)
(* reads it twice, and Close may set it to nil in between.                 *)
(***************************************************************************)
\* the first gorm.Open of Connect; DB is nil, the handle gorm.Open returns
\* with its error ("dead"), a handle with a live pool, or a handle whose
\* pool Close has closed
DbConnect ==
    /\ db.connect = "start"
    /\ \E ok \in BOOLEAN :
          db' = IF ok
                THEN [db EXCEPT !.connect = "done", !.handle = "live", !.flag = TRUE]
                ELSE [db EXCEPT !.connect = "done", !.handle = "dead",
                                !.reconnecting = "dialing"]
    /\ UNCHANGED <<coreVars, rmq, oauth, bp>>

\* the reconnect goroutine: an attempt that succeeds stores the handle, then
\* sets the flag and ends; nothing stops the loop
DbReconnect ==
    /\ \/ /\ db.reconnecting = "dialing"
          /\ db' = [db EXCEPT !.handle = "live", !.reconnecting = "opened"]
       \/ /\ db.reconnecting = "opened"
          /\ db' = [db EXCEPT !.flag = TRUE, !.reconnecting = "no"]
    /\ UNCHANGED <<coreVars, rmq, oauth, bp>>

\* Close: DB nil, or DB.DB() or sqlDB.Close() failing, clears the flag and
\* returns; else the pool is closed, then the flag cleared, then DB set to nil
DbClose ==
    /\ \/ /\ db.close = "idle" /\ db.connect = "done"
          /\ IF db.handle = "nil"
             THEN db' = [db EXCEPT !.flag = FALSE, !.close = "returned"]
             ELSE \E ok \in BOOLEAN :
                     db' = IF ok
                           THEN [db EXCEPT !.handle = "closed", !.close = "closing"]
                           ELSE [db EXCEPT !.flag = FALSE, !.close = "returned"]
       \/ /\ db.close = "closing"
          /\ db' = [db EXCEPT !.flag = FALSE, !.close = "unmarked"]
       \/ /\ db.close = "unmarked"
          /\ db' = [db EXCEPT !.handle = "nil", !.close = "returned"]
    /\ UNCHANGED <<coreVars, rmq, oauth, bp>>

\* ClearDBForTests: DB is set to nil, then the flag is cleared
ClearDBForTests ==
    /\ db.connect = "done"
    /\ db' = IF db.clearing
             THEN [db EXCEPT !.flag = FALSE, !.clearing = FALSE]
             ELSE [db EXCEPT !.handle = "nil", !.clearing = TRUE]
    /\ UNCHANGED <<coreVars, rmq, oauth, bp>>

\* the envelopes of the logger task the dispatcher hands to the handler
LoggerEnvelopes ==
    [id : {1}, task : {"logger"}, payload : {"obj"}, attempt : {0, 1},
     max_attempts : {0, 2}, timeout_seconds : {0}, notify : {NoNotify}]

\* Handle: the payload is decoded; a payload that does not decode is the
\* handler's error
LoggerHandle(env, decodable) ==
    /\ db.lg.pc \in {"idle", "returned"}
    /\ db' = [db EXCEPT
                !.lg = IF decodable
                       THEN [NoLoggerCall EXCEPT !.pc = "check", !.env = env,
                                                 !.decodable = TRUE]
                       ELSE [NoLoggerCall EXCEPT
                               !.pc = "returned", !.env = env,
                               !.herr = "unmarshal",
                               !.res = HandlerVerdict(env, "unmarshal")]]
    /\ UNCHANGED <<coreVars, rmq, oauth, bp>>

\* !database.Connected() || database.DB == nil, and a version that tests
\* the handle only
NotConnectedByHandle == db.handle = "nil"

NotConnected == ~db.flag \/ db.handle = "nil"

\* processLoggerPayload up to the test of the connection
LoggerCheck ==
    /\ db.lg.pc = "check"
    /\ db' = [db EXCEPT
                !.lg = IF NotConnected
                       THEN [@ EXCEPT !.pc = "returned", !.herr = "ok",
                                      !.seen = [flag |-> db.flag, handle |-> db.handle],
                                      !.res = HandlerVerdict(@.env, "ok")]
                       ELSE [@ EXCEPT !.pc = "insert",
                                      !.seen = [flag |-> db.flag, handle |-> db.handle]]]
    /\ UNCHANGED <<coreVars, rmq, oauth, bp>>

\* database.DB.Create(&serverLog): DB is read again; nil is a panic, a
\* closed pool an error, a live one the answer of the database
LoggerInsert ==
    /\ db.lg.pc = "insert"
    /\ IF db.handle = "nil"
       THEN db' = [db EXCEPT !.lg.pc = "panicked"]
       ELSE \E ok \in (IF db.handle = "live" THEN BOOLEAN ELSE {FALSE}) :
               LET e == IF ok THEN "ok" ELSE "insert"
               IN  db' = [db EXCEPT !.lg.pc = "returned", !.lg.inserts = @ + 1,
                                    !.lg.herr = e,
                                    !.lg.res = HandlerVerdict(db.lg.env, e)]
    /\ UNCHANGED <<coreVars, rmq, oauth, bp>>

\* what the worker does first with a verdict
SettleOf(res) ==
    IF res.Success THEN "ack" ELSE IF res.Retry THEN "republish" ELSE "nack"

\* the body of the health answer for a ping result and the rabbit flag, and
\* a version whose status ignores the rabbit flag
HealthBodyDatabaseOnly(pingOk, rabbitOk) ==
    [code |-> 200, status |-> IF pingOk THEN "ok" ELSE "degraded",
     database |-> pingOk, rabbitmq |-> rabbitOk]

HealthBody(pingOk, rabbitOk) ==
    [code |-> 200, status |-> IF pingOk /\ rabbitOk THEN "ok" ELSE "degraded",
     database |-> pingOk, rabbitmq |-> rabbitOk]

\* the answer of the handler once Ping has returned p
Answered(p) ==
    LET b == HealthBody(p = "ok", rabbitConnected)
    IN  [pc |-> "answered", ping |-> p, code |-> b.code, status |-> b.status,
         database |-> b.database, rabbitmq |-> b.rabbitmq]

\* GET /healthcheck up to the test at the head of Ping
HealthPing ==
    /\ db.hc.pc \in {"idle", "answered"}
    /\ db' = [db EXCEPT
                !.hc = IF ~db.flag \/ db.handle = "nil"
                       THEN Answered("not connected")
                       ELSE [NoRequest EXCEPT !.pc = "ping"]]
    /\ UNCHANGED <<coreVars, rmq, oauth, bp>>

\* DB.DB() and PingContext, then the answer; DB is read again
HealthAnswer ==
    /\ db.hc.pc = "ping"
    /\ IF db.handle = "nil"
       THEN db' = [db EXCEPT !.hc.pc = "panicked"]
       ELSE \E ok \in (IF db.handle = "live" THEN BOOLEAN ELSE {FALSE}) :
               db' = [db EXCEPT !.hc = Answered(IF ok THEN "ok" ELSE "error")]
    /\ UNCHANGED <<coreVars, rmq, oauth, bp>>

\* the flag the supervisor keeps, set as the tests of the handler set it
SetRabbitConnectedForTests(v) ==
    /\ rabbitConnected' = v
    /\ UNCHANGED <<ctxDone, mainPc, sup, currentCh, openCh, connOpen, sessions,
                   dialFailures, taskCh, taskChClosed, done, brokerQ, fresh, wk,
                   sinkJobs, hist, reg, libVars>>

NextDatabase ==
    \/ DbConnect \/ DbReconnect \/ DbClose \/ ClearDBForTests
    \/ \E e \in LoggerEnvelopes, d \in BOOLEAN : LoggerHandle(e, d)
    \/ LoggerCheck \/ LoggerInsert
    \/ HealthPing \/ HealthAnswer
    \/ \E v \in BOOLEAN : SetRabbitConnectedForTests(v)

SpecDatabase == Init /\ [][NextDatabase]_vars

(***************************************************************************)
(* The pool by numbers: how many deliveries the process holds, session by  *)
(* session, under the prefetch of the broker and the capacity of taskCh.   *)
(***************************************************************************)
\* WORKER_CONCURRENCY and TASK_CHANNEL_BUFFER, each any positive number
PoolConfigs == [concurrency : 1..MaxConcurrency, bufferSize : 1..MaxBuffer]

\* the supervisor goroutine: it starts with the configuration read; a
\* bring-up opens the next session with the prefetch set or, when Qos
\* failed, not set; a delivery of the session is received while the broker
\* has fewer than 2 x concurrency out unacknowledged (any number without the
\* prefetch); the delivery is sent into taskCh when there is room; a lost
\* session takes the supervisor back to dialing, with taskCh as it is
PoolSupervisor ==
    /\ \/ /\ bp.pc = "unstarted"
          /\ \E c \in PoolConfigs :
                bp' = [bp EXCEPT !.pc = "dial", !.concurrency = c.concurrency,
                                 !.bufferSize = c.bufferSize]
       \/ /\ bp.pc = "dial" /\ bp.session < MaxSessions
          /\ \E q \in BOOLEAN :
                bp' = [bp EXCEPT !.pc = "consuming", !.session = @ + 1, !.live = TRUE,
                                 !.qos = q, !.unacked = 0]
       \/ /\ bp.pc = "consuming" /\ bp.live
          /\ bp.qos => bp.unacked < 2 * bp.concurrency
          /\ bp' = [bp EXCEPT !.pc = "sending", !.unacked = @ + 1]
       \/ /\ bp.pc = "sending" /\ Len(bp.buf) < bp.bufferSize
          /\ bp' = [bp EXCEPT !.pc = "consuming", !.buf = Append(@, bp.session)]
       \/ /\ bp.pc = "consuming" /\ ~bp.live
          /\ bp' = [bp EXCEPT !.pc = "dial"]
    /\ UNCHANGED <<coreVars, rmq, oauth, db>>

\* a worker goroutine: an idle worker takes the head of taskCh; a worker
\* settles its delivery, which the broker counts when the delivery is of
\* the session that is open
PoolWorker ==
    /\ \/ /\ bp.buf # <<>> /\ Len(bp.handling) < bp.concurrency
          /\ bp' = [bp EXCEPT !.buf = Tail(@), !.handling = Append(@, Head(bp.buf))]
       \/ \E i \in 1..Len(bp.handling) :
             bp' = [bp EXCEPT
                      !.handling = SubSeq(@, 1, i - 1) \o SubSeq(@, i + 1, Len(@)),
                      !.unacked = IF bp.handling[i] = bp.session /\ bp.live
                                  THEN @ - 1 ELSE @]
    /\ UNCHANGED <<coreVars, rmq, oauth, db>>

\* the connection of the open session is lost: the broker takes back what
\* it had out, the process keeps what it holds
PoolConnectionLost ==
    /\ bp.pc \in {"consuming", "sending"} /\ bp.live
    /\ bp' = [bp EXCEPT !.live = FALSE]
    /\ UNCHANGED <<coreVars, rmq, oauth, db>>

NextBackpressure == PoolSupervisor \/ PoolWorker \/ PoolConnectionLost

SpecBackpressure == Init /\ [][NextBackpressure]_vars

(***************************************************************************)
(* Properties.                                                             *)
(***************************************************************************)
\* worker w holds the verdict of Dispatch for its delivery
HasVerdict(w) == wk[w].pc \in {"settle", "publish", "settled", "panicked"}

\* worker w is through with its delivery, normally or by a panic
Through(w) == wk[w].pc \in {"settled", "panicked"}

Republished(w) == wk[w].pub.made /\ wk[w].pub.ok

\* C1: every delivery a worker takes is settled exactly once, never with
\* requeue: acked iff the verdict is success, or retry with a successful
\* republish; nacked without requeue iff the verdict is terminal failure, or
\* retry with no republish done
C1_SettledExactlyOnce ==
    \A w \in Workers :
        Through(w) =>
            /\ wk[w].acks + wk[w].nacks = 1
            /\ ~wk[w].requeue
            /\ wk[w].acks = 1 <=>
                  (wk[w].res.Success \/ (wk[w].res.Retry /\ Republished(w)))
            /\ wk[w].nacks = 1 <=>
                  \/ (~wk[w].res.Success /\ ~wk[w].res.Retry)
                  \/ (wk[w].res.Retry /\ ~Republished(w))

\* C2: after a handler error Dispatch returns retry with attempt + 1 iff
\* attempt < max_attempts - 1 (max_attempts 5 when <= 0), else terminal
\* failure; after a handler success it returns Success and no retry
C2_RetryVerdict ==
    \A w \in Workers :
        (HasVerdict(w) /\ wk[w].hran) =>
            LET env == wk[w].d.body.env
                m == IF env.max_attempts <= 0 THEN 5 ELSE env.max_attempts
                res == wk[w].res
            IN  /\ wk[w].d.body.kind = "native" /\ env.task \in registry
                /\ wk[w].herr # "ok" =>
                      /\ ~res.Success
                      /\ res.Retry <=> env.attempt < m - 1
                      /\ res.Retry => res.RetryAttempt = env.attempt + 1
                      /\ res.Error = wk[w].herr
                /\ wk[w].herr = "ok" => (res.Success /\ ~res.Retry)

C2_Witness ==
    \E w \in Workers :
        /\ wk[w].pc = "settle" /\ wk[w].hran /\ wk[w].herr = "err"
        /\ wk[w].res.Retry /\ wk[w].res.RetryAttempt = 2
        /\ wk[w].d.body.env.max_attempts = 3

\* C4: a body that cannot be decoded gets terminal failure and never retry,
\* no handler call, no notification, nothing published, and one nack
\* without requeue
C4_PoisonMessage ==
    \A w \in Workers :
        (HasVerdict(w) /\ ~Decode(wk[w].d.body).ok) =>
            /\ ~wk[w].res.Success /\ ~wk[w].res.Retry
            /\ ~wk[w].hran
            /\ wk[w].called = "none" /\ wk[w].sockudo = 0 /\ wk[w].webhook = 0
            /\ \A j \in sinkJobs : j.id # wk[w].d.body.env.id
            /\ wk[w].pc \in {"settle", "settled"}
            /\ ~wk[w].pub.made
            /\ \A k \in 1..Len(brokerQ) : brokerQ[k].body.env.id # wk[w].d.body.env.id
            /\ wk[w].pc = "settled" =>
                  (wk[w].nacks = 1 /\ wk[w].acks = 0 /\ ~wk[w].requeue)

C4_Witness ==
    \E w \in Workers :
        /\ wk[w].pc = "settled" /\ wk[w].d.body.kind = "garbage"
        /\ wk[w].nacks = 1 /\ wk[w].res.Error = "parse"

\* C5: an envelope whose task is not registered gets terminal failure with
\* an unknown-task error whatever its attempt and max_attempts, never
\* retry; no handler runs, nothing is republished, one nack without requeue
C5_UnknownTask ==
    \A w \in Workers :
        (HasVerdict(w) /\ wk[w].d.body.kind = "native"
                       /\ wk[w].d.body.env.task \notin registry) =>
            /\ wk[w].res.Error = "unknown task"
            /\ ~wk[w].res.Success /\ ~wk[w].res.Retry
            /\ ~wk[w].hran
            /\ wk[w].pc \in {"settle", "settled"}
            /\ ~wk[w].pub.made
            /\ hist[wk[w].d.body.env.id].pubs = <<>>
            /\ hist[wk[w].d.body.env.id].runs = 0
            /\ wk[w].pc = "settled" =>
                  (wk[w].nacks = 1 /\ wk[w].acks = 0 /\ ~wk[w].requeue)

C5_Witness ==
    \E w \in Workers :
        /\ wk[w].pc = "settled" /\ wk[w].d.body.kind = "native"
        /\ wk[w].d.body.env.task = "ghost"
        /\ wk[w].d.body.env.attempt = 0 /\ wk[w].d.body.env.max_attempts = 3
        /\ wk[w].nacks = 1

\* the envelope id i is still on its way: queued, in the supervisor's hand,
\* buffered, or being processed by a worker
InFlight(i) ==
    \/ \E k \in 1..Len(brokerQ) : brokerQ[k].body.env.id = i
    \/ \E k \in 1..Len(taskCh) : taskCh[k].body.env.id = i
    \/ (sup.pc = "sending" /\ sup.d.body.env.id = i)
    \/ \E w \in Workers :
          /\ wk[w].pc \in {"dispatch", "handled", "settle", "publish"}
          /\ wk[w].d.body.env.id = i

\* the lineage of id i started at attempt 0 with a registered task, its
\* handler failed every time so far and every republish succeeded
FailingLineage(i) ==
    /\ hist[i].seen
    /\ hist[i].first.kind = "native"
    /\ hist[i].first.env.task \in registry
    /\ hist[i].first.env.attempt = 0
    /\ hist[i].fails = hist[i].runs
    /\ ~hist[i].pubMiss

\* what a failing lineage with M attempts looks like, while it runs and
\* when it has ended with the nack
LineageShape(i, M) ==
    LET h == hist[i]
        n == Len(h.pubs)
    IN  /\ \A k \in 1..n : h.pubs[k].attempt = k
        /\ n <= M - 1
        /\ h.acks = n
        /\ h.runs \in {n, n + 1}
        /\ h.runs <= M
        /\ h.okCalls = 0
        /\ h.errCalls <= 1
        /\ h.nacks <= h.errCalls
        /\ h.errCalls = 1 => (h.runs = M /\ n = M - 1)
        /\ h.nacks = 1 => ~InFlight(i)
        /\ \A j \in sinkJobs :
              j.id = i => (j.status = "error" /\ j.attempt = M - 1 /\ h.errCalls = 1)
        /\ \A w \in Workers :
              (wk[w].d.body.env.id = i /\ HasVerdict(w)) =>
                  /\ wk[w].res.Retry <=> wk[w].d.body.env.attempt < M - 1
                  /\ wk[w].pc = "settled" =>
                        (wk[w].nacks = 1 <=> wk[w].d.body.env.attempt = M - 1)

\* C3: a lineage that starts at attempt 0 with max_attempts M >= 1, whose
\* handler always fails and whose republishes succeed, republishes attempts
\* 1..M-1 in order, acking each original; the delivery with attempt M-1 gets
\* terminal failure, one nack and one error notification call; the handler
\* runs M times and nothing more is published
C3_RetryBoundary ==
    \A i \in Ids :
        (FailingLineage(i) /\ hist[i].first.env.max_attempts >= 1) =>
            LineageShape(i, hist[i].first.env.max_attempts)

C3_Witness ==
    \E i \in Ids :
        /\ FailingLineage(i)
        /\ hist[i].first.env.max_attempts = 3
        /\ hist[i].nacks = 1 /\ hist[i].runs = 3 /\ Len(hist[i].pubs) = 2
        /\ hist[i].errCalls = 1

\* C6: an envelope with max_attempts <= 0 is processed as the same envelope
\* with max_attempts = 5: same verdict, same notification, same republished
\* attempt and delay, and its failing lineage has the shape of one with 5
C6_DefaultMaxAttempts ==
    /\ \A w \in Workers :
          (HasVerdict(w) /\ wk[w].hran /\ wk[w].d.body.env.max_attempts <= 0) =>
              LET env == wk[w].d.body.env
                  e5 == [env EXCEPT !.max_attempts = 5]
              IN  /\ wk[w].res = HandlerVerdict(e5, wk[w].herr)
                  /\ wk[w].called = NotifyCall(e5, wk[w].herr)
                  /\ wk[w].sockudo + wk[w].webhook =
                        Cardinality(IF wk[w].called = "none" THEN {}
                                    ELSE notify(e5, wk[w].called))
                  /\ wk[w].pub.made =>
                        /\ wk[w].pub.body.env.attempt = env.attempt + 1
                        /\ wk[w].pub.body.env.max_attempts = env.max_attempts
                        /\ wk[w].pub.xdelay = BackoffMs(env.attempt + 1)
    /\ \A i \in Ids :
          (FailingLineage(i) /\ hist[i].first.env.max_attempts <= 0) =>
              LineageShape(i, 5)

C6_Witness ==
    \E i \in Ids :
        /\ FailingLineage(i)
        /\ hist[i].first.env.max_attempts = 0
        /\ hist[i].nacks = 1 /\ hist[i].runs = 5 /\ Len(hist[i].pubs) = 4

\* C7: a handler that runs longer than timeout_seconds > 0 makes Dispatch
\* return a handler-error verdict (never success) with a deadline-exceeded
\* cause
C7_Timeout ==
    \A w \in Workers :
        (HasVerdict(w) /\ wk[w].hran /\ wk[w].hslow) =>
            /\ wk[w].herr = "deadline"
            /\ ~wk[w].res.Success
            /\ wk[w].res.Error = "deadline"

\* C8: notifications are started exactly when the envelope has a notify
\* config and the verdict is final, "success" after a handler success and
\* "error" after a handler error with no attempt left; none on retry, parse
\* failure or unknown task; each configured sink is started once, an absent
\* one never
C8_NotifyExactlyWhenFinal ==
    \A w \in Workers :
        HasVerdict(w) =>
            LET env == wk[w].d.body.env
                m == IF env.max_attempts <= 0 THEN 5 ELSE env.max_attempts
                final == wk[w].hran /\ (wk[w].herr = "ok" \/ ~(env.attempt < m - 1))
                mine(sink) == {j \in sinkJobs : /\ j.id = env.id
                                                /\ j.attempt = env.attempt
                                                /\ j.sink = sink}
            IN  /\ wk[w].started # "none" <=> (final /\ env.notify.present)
                /\ wk[w].started = "success" => wk[w].herr = "ok"
                /\ wk[w].started = "error" => wk[w].herr \notin {"ok", "none"}
                /\ wk[w].res.Retry => wk[w].started = "none"
                /\ ~wk[w].hran => (wk[w].started = "none" /\ wk[w].called = "none")
                /\ wk[w].sockudo = 1 <=> (wk[w].started # "none" /\ env.notify.sockudo)
                /\ wk[w].webhook = 1 <=> (wk[w].started # "none" /\ env.notify.webhook)
                /\ wk[w].sockudo <= 1 /\ wk[w].webhook <= 1
                /\ Cardinality(mine("sockudo")) = wk[w].sockudo
                /\ Cardinality(mine("webhook")) = wk[w].webhook
                /\ \A j \in mine("sockudo") \cup mine("webhook") :
                      j.status = wk[w].started

C8_Witness ==
    \E w \in Workers :
        /\ wk[w].pc = "settled" /\ wk[w].started = "error"
        /\ wk[w].sockudo = 1 /\ wk[w].webhook = 0
        /\ wk[w].nacks = 1

\* C9: once a handler completed with a final verdict, shutdown does not
\* suppress the notification: every started sink goroutine has a context
\* detached from the parent and bounded by 10 s, and by the time the process
\* has exited each of them has made its sink call and seen it return
C9_NotificationSurvival ==
    /\ \A j \in sinkJobs : j.parent = "background" /\ j.timeout = 10
    /\ mainPc = "exited" => \A j \in sinkJobs : j.st \in {"delivered", "failed"}

\* C10: whatever a sink call returns, the step that ends it changes no
\* verdict, no ack or nack and no republish
C10_SinkFailureSwallowed ==
    [][(\E j \in sinkJobs : j.st = "calling" /\ j \notin sinkJobs') =>
          (wk' = wk /\ hist' = hist /\ brokerQ' = brokerQ /\ taskCh' = taskCh
           /\ mainPc' = mainPc)]_vars

C10_Witness ==
    \E j \in sinkJobs :
        /\ j.st = "failed" /\ j.status = "success"
        /\ hist[j.id].acks = 1 /\ hist[j.id].nacks = 0

\* the sink goroutines started for the delivery worker w holds
JobsOf(w) ==
    {j \in sinkJobs : /\ j.id = wk[w].d.body.env.id
                      /\ j.attempt = wk[w].d.body.env.attempt}

\* C11: for one delivery the order is parse, handler run, start of the
\* notification goroutines, then ack / nack / republish: nothing is settled
\* or published before the verdict, no goroutine is started before the
\* handler has returned, and when the delivery is settled every goroutine of
\* its notification has been started, whatever the progress of the sink call
C11_OrderPerDelivery ==
    \A w \in Workers :
        /\ wk[w].pc \in {"dispatch", "handled"} =>
              /\ JobsOf(w) = {}
              /\ wk[w].acks = 0 /\ wk[w].nacks = 0 /\ ~wk[w].pub.made
              /\ wk[w].pc = "dispatch" => ~wk[w].hran
              /\ wk[w].pc = "handled" => wk[w].hran
        /\ (wk[w].acks + wk[w].nacks > 0 \/ wk[w].pub.made) => HasVerdict(w)
        /\ (HasVerdict(w) /\ wk[w].started # "none") =>
              /\ wk[w].hran
              /\ wk[w].d.body.env.notify.sockudo => \E j \in JobsOf(w) : j.sink = "sockudo"
              /\ wk[w].d.body.env.notify.webhook => \E j \in JobsOf(w) : j.sink = "webhook"

\* the ack is issued while a sink call of the delivery is still in progress
C11_Witness ==
    \E w \in Workers :
        /\ wk[w].pc = "settled" /\ wk[w].acks = 1
        /\ \E j \in JobsOf(w) : j.st = "calling"

\* C12: a Lookup returns the handler stored under the name, not-found when
\* none is; a Register of a free name stores the handler; a Register of a
\* taken name panics and leaves the registry as it was; a Clear empties the
\* registry; every call, the panicking one too, releases the lock it took
C12_RegistryUniqueness ==
    /\ [](\A c \in Callers :
             /\ reg.calls[c].pc = "idle" => (reg.writer # c /\ c \notin reg.readers)
             /\ reg.calls[c].pc \in {"register", "clear"} =>
                   (reg.writer = c /\ reg.readers = {})
             /\ reg.calls[c].pc = "lookup" => (reg.writer = 0 /\ c \in reg.readers))
    /\ [][\A c \in Callers :
             LET a == reg.calls[c]
                 b == reg'.calls[c]
             IN  /\ (a.pc = "register" /\ b.pc = "idle") =>
                       IF reg.map[a.name] = NoHandler
                       THEN b.out = "ok" /\ reg'.map = [reg.map EXCEPT ![a.name] = a.h]
                       ELSE b.out = "panic" /\ reg'.map = reg.map
                 /\ (a.pc = "lookup" /\ b.pc = "idle") =>
                       (b.out = reg.map[a.name] /\ reg'.map = reg.map)
                 /\ (a.pc = "clear" /\ b.pc = "idle") =>
                       \A n \in TaskNames : reg'.map[n] = NoHandler]_vars

\* after a Clear one caller has registered "logger" again; the Register of
\* the same name by the other caller has panicked, the first handler is
\* still there and the lock is free
C12_Witness ==
    \E c, e \in Callers :
        /\ reg.calls[e].pc = "idle" /\ reg.calls[e].op = "register"
        /\ reg.calls[e].name = "logger" /\ reg.calls[e].out = "ok"
        /\ reg.calls[c].pc = "idle" /\ reg.calls[c].op = "register"
        /\ reg.calls[c].name = "logger" /\ reg.calls[c].out = "panic"
        /\ reg.calls[c].h # reg.calls[e].h
        /\ reg.map["logger"] = reg.calls[e].h
        /\ reg.writer = 0 /\ reg.readers = {}

\* C13: a retry republish goes to the exchange and routing key of the
\* original delivery and carries x-delay = 1000 * 2^(a - 1) ms, a being the
\* attempt written into the republished envelope (delays beyond 2^20 s are
\* only compared with that lower bound)
C13_RepublishDelay ==
    \A w \in Workers :
        wk[w].pub.made =>
            LET a == wk[w].pub.body.env.attempt
            IN  /\ wk[w].pub.exchange = wk[w].d.exchange
                /\ wk[w].pub.rk = wk[w].d.rk
                /\ a = wk[w].d.body.env.attempt + 1
                /\ IF a <= 21
                   THEN wk[w].pub.xdelay = 1000 * (2 ^ (a - 1))
                   ELSE wk[w].pub.xdelay >= 1000 * (2 ^ 20)

\* C14: the x-delay of a retry republish never exceeds the retry cap of 30 s
C14_DelayCapped ==
    \A w \in Workers : wk[w].pub.made => wk[w].pub.xdelay <= RetryCapMs

\* C15: the republished envelope decodes to the delivered envelope with
\* attempt + 1 and every other field as delivered, and the delivery a worker
\* holds is the one it took
C15_EnvelopeImmutable ==
    \A w \in Workers :
        /\ wk[w].pub.made =>
              /\ Decode(wk[w].pub.body).ok
              /\ Decode(wk[w].pub.body).env =
                    [Decode(wk[w].d.body).env EXCEPT !.attempt = @ + 1]
        /\ (wk[w].pc # "idle" /\ wk[w].d.body.kind = "native") =>
              /\ hist[wk[w].d.body.env.id].seen
              /\ wk[w].d.body.env.id = hist[wk[w].d.body.env.id].first.env.id
              /\ wk[w].d.body.env.task = hist[wk[w].d.body.env.id].first.env.task

\* the wait after k failed dials in a row: 2 s doubled k - 1 times, at most 30 s
WaitAfter(k) == IF k >= 5 THEN MaxDialDelay ELSE 2 ^ k

\* C16: the wait after the k-th failed dial in a row is 2, 4, 8, 16, 30,
\* 30, ... s, counted from the start or from the last successful connection
C16_DialBackoff ==
    /\ sup.delay \in {2, 4, 8, 16, 30}
    /\ sup.pc = "backoff" => sup.wait = WaitAfter(sup.streak)

\* C17: once the context is cancelled, whatever the supervisor is doing,
\* done is eventually closed (as long as the process lives); done is closed
\* only after taskCh is closed and every worker has exited, and nothing is
\* sent on taskCh once it is closed
C17_ShutdownTerminates ==
    /\ [](done => (taskChClosed /\ \A w \in Workers : wk[w].pc = "exited"))
    /\ [](taskChClosed => sup.pc \in {"wait", "exited"})
    /\ [][taskChClosed => Len(taskCh') <= Len(taskCh)]_vars
    /\ (ctxDone ~> (done \/ ~Alive))

\* done is closed in a live process after a delivery had been forwarded
C17_Witness ==
    /\ done /\ Alive /\ ctxDone
    /\ \A w \in Workers : wk[w].pc = "exited"
    /\ \E i \in Ids : hist[i].seen /\ hist[i].acks + hist[i].nacks > 0

\* C18: every delivery the supervisor receives is acked or nacked exactly
\* once: never more often than received, and when done is closed no received
\* delivery is left buffered or unsettled
C18_EveryDeliverySettled ==
    /\ \A i \in Ids : hist[i].acks + hist[i].nacks <= hist[i].recv
    /\ done => /\ taskCh = <<>>
               /\ \A i \in Ids : hist[i].acks + hist[i].nacks = hist[i].recv

\* C19: when done is closed after a shutdown, the channel and the connection
\* of every session are closed, the shared publish-channel reference is nil
\* and RabbitConnected() is false
C19_ShutdownPostcondition ==
    done => /\ ~connOpen /\ openCh = 0
            /\ currentCh = 0
            /\ ~rabbitConnected

\* C20: a delivery whose body is the Celery three-element wrapper around a
\* native envelope of a registered task is not a poison message: it gets no
\* parse error, the handler of the wrapped task is called, and a handler
\* success is settled with an ack as for the native envelope itself
C20_LegacyCeleryShape ==
    \A w \in Workers :
        (HasVerdict(w) /\ wk[w].d.body.kind = "celery"
                       /\ LookupTask(wk[w].d.body.env.task)) =>
            /\ wk[w].res.Error # "parse"
            /\ wk[w].hran
            /\ (wk[w].pc = "settled" /\ wk[w].res.Success) => wk[w].acks = 1

\* the publisher has just returned from one of its two send functions
Sent == rmq.call.fn \in {"SendCeleryTask", "SendGoTask"}

\* C21: a send with an empty task name returns the argument error and an
\* empty id, has performed no broker operation (no declare, no publish),
\* and leaves the channel and connection as they were, whatever the other
\* arguments are and also on a publisher without a channel
C21_EmptyTaskRejected ==
    /\ []((Sent /\ rmq.call.task = "") =>
             /\ rmq.ret.id = 0 /\ rmq.ret.err = "task name is required"
             /\ rmq.ops = <<>>)
    /\ [][(rmq'.call.fn \in {"SendCeleryTask", "SendGoTask"} /\ rmq'.call.task = "") =>
             /\ rmq'.ch = rmq.ch /\ rmq'.conn = rmq.conn
             /\ rmq'.uuids = rmq.uuids]_vars

C21_Witness ==
    /\ rmq.call.fn = "SendGoTask" /\ rmq.call.task = ""
    /\ rmq.ch = "nil" /\ rmq.call.options.present /\ rmq.call.payload = "unencodable"
    /\ rmq.ret.err = "task name is required"

\* C22: SendGoTask with a non-empty task on a publisher that has a channel
\* declares the queue (celery when the queue argument is empty) before it
\* publishes; when it returns without error it has published exactly one
\* persistent JSON message to the default exchange with the queue as routing
\* key, and the id it returns is the id in the envelope; the envelope has
\* version 1.0, attempt 0, max_attempts 5 or the option's value, and
\* timeout_seconds and notify exactly when the options give them; a failed
\* declare or publish gives an error and an empty id, and nothing is
\* published after a failed declare
C22_SendGoTask ==
    (rmq.call.fn = "SendGoTask" /\ rmq.call.task # "" /\ rmq.ch # "nil") =>
        LET c == rmq.call
            o == c.options
            q == IF c.queue = "" THEN "celery" ELSE c.queue
            publishes == {k \in 1..Len(rmq.ops) : rmq.ops[k].op = "Publish"}
        IN  /\ Len(rmq.ops) >= 1
            /\ rmq.ops[1].op = "QueueDeclare" /\ rmq.ops[1].queue = q
            /\ rmq.ops[1].durable
            /\ publishes \subseteq {2}
            /\ ~rmq.ops[1].ok => publishes = {}
            /\ (\E k \in 1..Len(rmq.ops) : ~rmq.ops[k].ok) =>
                  (rmq.ret.id = 0 /\ rmq.ret.err # "none")
            /\ (rmq.ret.id # 0) <=> (rmq.ret.err = "none")
            /\ rmq.ret.err = "none" =>
                  /\ publishes = {2}
                  /\ rmq.ops[2].exchange = "" /\ rmq.ops[2].key = q
                  /\ rmq.ops[2].msg.DeliveryMode = "persistent"
                  /\ rmq.ops[2].msg.ContentType = "application/json"
                  /\ LET b == rmq.ops[2].msg.Body
                     IN  /\ b.fmt = "object"
                         /\ b.id = rmq.ret.id /\ b.task = c.task
                         /\ b.version = "1.0" /\ b.attempt = 0
                         /\ b.max_attempts =
                               IF o.present /\ o.MaxAttempts.set
                               THEN o.MaxAttempts.v ELSE 5
                         /\ b.timeout_seconds.set =
                               (o.present /\ o.TimeoutSeconds.set)
                         /\ b.timeout_seconds.set =>
                               b.timeout_seconds.v = o.TimeoutSeconds.v
                         /\ (b.notify # "absent") = (o.present /\ o.Notify # "nil")
                         /\ b.notify # "absent" => b.notify = o.Notify
            /\ (rmq.ret.err # "none" /\ c.payload # "unencodable") =>
                  \E k \in 1..Len(rmq.ops) : ~rmq.ops[k].ok

\* a call with an empty queue and all three options set has published
C22_Witness ==
    /\ rmq.call.fn = "SendGoTask" /\ rmq.call.task = "logger" /\ rmq.call.queue = ""
    /\ rmq.call.options.present /\ rmq.call.options.MaxAttempts = PtrInt(3)
    /\ rmq.call.options.TimeoutSeconds = PtrInt(1)
    /\ rmq.call.options.Notify = "other"
    /\ rmq.ret.err = "none" /\ rmq.ret.id = 2
    /\ Len(rmq.ops) = 2 /\ rmq.ops[2].key = "celery"
    /\ rmq.ops[2].msg.Body.max_attempts = 3

\* C23: the body of every message SendGoTask has published is decoded by the
\* dispatcher without error, for every task name and every options value
\* (a Notify map with the key webhook included), and the decoded envelope
\* has the id the call returned, the task of the call, attempt 0, the
\* max_attempts of the options or 5 and the timeout_seconds of the options
\* or 0
C23_PublishedBodyDecodes ==
    (rmq.call.fn = "SendGoTask" /\ rmq.ret.err = "none") =>
        LET c == rmq.call
            o == c.options
            r == UnmarshalPublished(rmq.ops[2].msg.Body)
        IN  /\ r.ok
            /\ r.env.id = rmq.ret.id /\ r.env.task = c.task
            /\ r.env.attempt = 0
            /\ r.env.max_attempts =
                  IF o.present /\ o.MaxAttempts.set THEN o.MaxAttempts.v ELSE 5
            /\ r.env.timeout_seconds =
                  IF o.present /\ o.TimeoutSeconds.set THEN o.TimeoutSeconds.v ELSE 0

\* C24: SendCeleryTask with a non-empty task that returns without error has
\* published exactly one persistent message to the exchange celery with the
\* queue (celery when empty) as routing key; its body decodes to the args of
\* the call ([] when nil was passed), the empty kwargs and the metadata with
\* callbacks, errbacks, chain and chord null; its headers carry lang py, the
\* task, the id and root_id equal to the id; its correlation id is the id
\* the call returned
C24_SendCeleryTask ==
    (rmq.call.fn = "SendCeleryTask" /\ rmq.call.task # "" /\ rmq.ret.err = "none") =>
        LET c == rmq.call
            q == IF c.queue = "" THEN "celery" ELSE c.queue
        IN  /\ rmq.ret.id # 0
            /\ {k \in 1..Len(rmq.ops) : rmq.ops[k].op = "Publish"} = {Len(rmq.ops)}
            /\ LET p == rmq.ops[Len(rmq.ops)]
                   b == p.msg.Body
               IN  /\ p.ok /\ p.exchange = "celery" /\ p.key = q
                   /\ p.msg.DeliveryMode = "persistent"
                   /\ b.fmt = "array"
                   /\ UnmarshalSlice(b.args) = (IF c.args = "nil" THEN "empty" ELSE c.args)
                   /\ b.kwargs = "{}"
                   /\ b.meta = [callbacks |-> "null", errbacks |-> "null",
                                chain |-> "null", chord |-> "null"]
                   /\ p.msg.Headers = [lang |-> "py", task |-> c.task,
                                       id |-> rmq.ret.id, root_id |-> rmq.ret.id]
                   /\ p.msg.CorrelationId = rmq.ret.id

\* nil args and an empty queue: the message went out with [] under celery
C24_Witness ==
    /\ rmq.call.fn = "SendCeleryTask" /\ rmq.call.task = "logger"
    /\ rmq.call.args = "nil" /\ rmq.call.queue = ""
    /\ rmq.ret.err = "none" /\ rmq.ret.id = 1
    /\ Len(rmq.ops) = 2 /\ rmq.ops[2].key = "celery" /\ rmq.ops[2].msg.Body.args = "[]"

\* C25: when a Send without overrides checks the cache and the cached token
\* was fetched less than 55 minutes ago, it takes that token and makes no
\* token request; when no token is cached or the cached one is 55 minutes
\* old or older, it does not take it: it goes on to the write lock and from
\* there to a token request for the default credential; and when that fetch
\* returns a token, the token and the time of the fetch replace the cached
\* ones
C25_TokenCache ==
    [][\A s \in Senders :
          LET a == oauth.calls[s]
              b == oauth'.calls[s]
          IN  /\ (a.pc \in {"rlock", "recheck"} /\ b # a) =>
                    IF oauth.token # 0 /\ oauth.now - oauth.fetchedAt < 55
                    THEN /\ b.pc = "post" /\ b.tok = oauth.token
                         /\ ~b.req.made /\ oauth'.issued = oauth.issued
                         /\ oauth'.token = oauth.token
                         /\ oauth'.fetchedAt = oauth.fetchedAt
                    ELSE /\ b.pc = (IF a.pc = "rlock" THEN "lock" ELSE "fetching")
                         /\ b.pc = "fetching" =>
                               b.req = [made |-> TRUE, client_id |-> "default",
                                        scope |-> "default"]
              /\ (a.pc = "fetching" /\ a.ovrID = "" /\ a.ovrScope = ""
                    /\ b.pc = "post") =>
                    /\ b.tok \notin 1..oauth.issued
                    /\ oauth'.token = b.tok
                    /\ oauth'.fetchedAt = oauth.now]_vars

\* a Send has taken a cached token in its 55th minute, with no request
C25_Witness ==
    \E s \in Senders :
        /\ oauth.calls[s].pc = "post" /\ ~oauth.calls[s].req.made
        /\ oauth.calls[s].tok = oauth.token /\ oauth.token # 0
        /\ oauth.now - oauth.fetchedAt = TokenTTL - 1

\* C26: a Send with a non-empty override client id or override scope makes
\* a token request at once, with the override in place of the default value
\* it overrides, also while a valid token is cached; the token it goes on
\* with is the one that request returned, never the cached one; and no step
\* of such a Send changes the cached token or its expiry, whether the fetch
\* succeeds or fails
C26_OverrideBypassesCache ==
    [][\A s \in Senders :
          LET a == oauth.calls[s]
              b == oauth'.calls[s]
          IN  /\ (a.pc \in {"idle", "returned"} /\ b.pc \notin {"idle", "returned"}
                    /\ (b.ovrID # "" \/ b.ovrScope # "")) =>
                    /\ b.pc = "fetching"
                    /\ b.req = [made |-> TRUE,
                                client_id |-> IF b.ovrID # "" THEN b.ovrID
                                              ELSE "default",
                                scope |-> IF b.ovrScope # "" THEN b.ovrScope
                                          ELSE "default"]
              /\ ((a.ovrID # "" \/ a.ovrScope # "" \/ b.ovrID # "" \/ b.ovrScope # "")
                    /\ b # a) =>
                    /\ oauth'.token = oauth.token
                    /\ oauth'.expiresAt = oauth.expiresAt
                    /\ oauth'.writer = oauth.writer
              /\ ((a.ovrID # "" \/ a.ovrScope # "") /\ a.pc = "fetching" /\ b # a) =>
                    /\ b.pc \in {"post", "returned"}
                    /\ b.pc = "post" => b.tok \notin 1..oauth.issued
                    /\ b.pc = "returned" => b.err = "failed to get token"]_vars

\* a Send with an override scope goes on with its own token while another,
\* still valid token is cached
C26_Witness ==
    \E s \in Senders :
        /\ oauth.calls[s].pc = "post" /\ oauth.calls[s].ovrScope = "other"
        /\ oauth.calls[s].ovrID = ""
        /\ oauth.calls[s].req.client_id = "default"
        /\ oauth.token # 0 /\ oauth.now < oauth.expiresAt
        /\ oauth.calls[s].tok \notin {0, oauth.token}

\* C27: a call of the logger handler on a decodable payload that finds the
\* database not connected (flag clear or no handle) returns success without
\* an insert, so the verdict is success and the delivery is acked; a call
\* that found it connected and whose insert fails returns that error, and
\* the verdict retries iff attempt < max_attempts - 1 (5 when <= 0)
C27_LoggerWithoutDatabase ==
    db.lg.pc = "returned" =>
        LET lg == db.lg
            m == IF lg.env.max_attempts <= 0 THEN 5 ELSE lg.env.max_attempts
        IN  /\ (lg.decodable /\ (~lg.seen.flag \/ lg.seen.handle = "nil")) =>
                  /\ lg.inserts = 0 /\ lg.herr = "ok"
                  /\ lg.res.Success /\ ~lg.res.Retry
                  /\ SettleOf(lg.res) = "ack"
            /\ lg.inserts > 0 => (lg.seen.flag /\ lg.seen.handle # "nil")
            /\ lg.herr = "insert" =>
                  /\ lg.inserts = 1 /\ ~lg.res.Success /\ lg.res.Error = "insert"
                  /\ lg.res.Retry <=> lg.env.attempt < m - 1
                  /\ SettleOf(lg.res) = IF lg.env.attempt < m - 1
                                        THEN "republish" ELSE "nack"

C27_Witness ==
    /\ db.lg.pc = "returned" /\ db.lg.decodable
    /\ ~db.lg.seen.flag /\ db.lg.seen.handle = "dead"
    /\ db.lg.inserts = 0 /\ db.lg.res.Success

C29_SharedChannelReference ==
    /\ [](sup.pc \in {"top", "dial", "backoff", "channel", "return", "wait", "exited"}
             => currentCh = 0)
    /\ [][\A w \in Workers :
            (wk[w].pc # "publish" /\ wk'[w].pc = "publish" /\ wk'[w].pubCh # 0)
                => sup.pc \in {"declare", "consuming", "sending"}]_vars

\* C30: a failed bring-up step (no channel, or a failed QoS, declare, bind
\* or consume) leaves the channel and the connection of the session closed
\* and RabbitConnected() false and takes the supervisor back to the head of
\* its loop; the supervisor consumes only on a session whose prefetch limit
\* was applied
C30_BringUpFailure ==
    /\ [](sup.pc \in {"consuming", "sending"} => sup.qos)
    /\ [][(sup.pc \in {"channel", "declare"} /\ sup'.pc = "top")
            => (openCh' = 0 /\ ~connOpen' /\ ~rabbitConnected')]_vars
    /\ [][(sup.pc = "declare" /\ ~sup'.qos) => sup'.pc = "top"]_vars

\* C31: every failed bring-up step (the dial, the channel, a declare, the
\* bind or the consume) takes the supervisor to the backoff wait with a
\* delay of at least 2 s, so no dial follows a failed attempt without a wait
C31_BringUpBackoff ==
    [][(/\ sup.pc \in {"dial", "channel", "declare"}
        /\ sup'.pc \notin {"dial", "channel", "declare", "consuming"})
          => (sup'.pc = "backoff" /\ sup'.wait >= InitialDialDelay)]_vars

\* C32: in every state, over any number of sessions, the deliveries
\* buffered in taskCh plus those the workers hold are at most
\* 2 x concurrency, and those buffered at most the capacity of taskCh
C32_BackpressureBound ==
    bp.pc # "unstarted" =>
        /\ Len(bp.buf) + Len(bp.handling) <= 2 * bp.concurrency
        /\ Len(bp.buf) <= bp.bufferSize

\* C33: once the connection of the session is lost while the supervisor is
\* consuming, or blocked sending a delivery into a full taskCh, the
\* supervisor leaves consuming with the channel and the connection closed,
\* the shared reference nil and RabbitConnected() false, and it comes to
\* dial again unless the process is shutting down
C33_LossLeadsToRedial ==
    /\ [][(sup.pc = "consuming" /\ sup'.pc = "top")
            => (/\ ~connOpen' /\ openCh' = 0 /\ currentCh' = 0
                /\ ~rabbitConnected')]_vars
    /\ (sup.pc \in {"consuming", "sending"} /\ ~connOpen)
          ~> (ctxDone
              \/ (/\ sup.pc = "dial" /\ ~connOpen /\ openCh = 0 /\ currentCh = 0
                  /\ ~rabbitConnected))

C33_Witness ==
    /\ sup.pc = "dial" /\ sessions = 1 /\ ~connOpen /\ currentCh = 0
    /\ ~rabbitConnected /\ ~ctxDone /\ taskCh # <<>>

\* the callers of Send whose request for the default credential is out
DefaultFetchers ==
    {s \in Senders : /\ oauth.calls[s].pc = "fetching"
                     /\ oauth.calls[s].ovrID = "" /\ oauth.calls[s].ovrScope = ""}

\* C34: of the callers of Send that miss the cache together, one at a time
\* holds the write lock and at most one has a request for the default
\* credential out, and never while a valid token is cached: the callers
\* that come after a fetch that returned a token make no request and take
\* that token; the cached token always has the expiry of its own fetch, and
\* a caller takes the cached token only while no writer holds the lock
C34_DoubleCheckedLocking ==
    /\ [](/\ Cardinality(DefaultFetchers) <= 1
          /\ \A s \in Senders :
                /\ (oauth.calls[s].pc = "recheck" \/ s \in DefaultFetchers)
                      => oauth.writer = s
                /\ s \in DefaultFetchers => ~TokenValid
          /\ oauth.token # 0 => oauth.expiresAt = oauth.fetchedAt + TokenTTL)
    /\ [][\A s \in Senders :
            LET a == oauth.calls[s]
                b == oauth'.calls[s]
            IN  (a.pc \in {"rlock", "recheck"} /\ b.pc = "post") =>
                   /\ oauth.writer \in {0, s}
                   /\ b.tok = oauth.token /\ ~b.req.made
                   /\ oauth.now < oauth.fetchedAt + TokenTTL
                   /\ oauth'.issued = oauth.issued]_vars

\* one request for the default credential was answered, and every caller
\* goes on with its token, the one that fetched it and one that did not
C34_Witness ==
    /\ oauth.issued = 1 /\ oauth.token = 1 /\ oauth.now = oauth.fetchedAt
    /\ \A s \in Senders :
          /\ oauth.calls[s].pc = "post" /\ oauth.calls[s].tok = 1
          /\ oauth.calls[s].ovrID = "" /\ oauth.calls[s].ovrScope = ""
    /\ \E s \in Senders : oauth.calls[s].req.made
    /\ \E s \in Senders : ~oauth.calls[s].req.made

\* C35: a token request that fails ends the Send with the error "failed to
\* get token" and without the POST to the target, and leaves the cached
\* token and its expiry as they were; after a failed request for the
\* default credential the lock is free and the cache still holds no valid
\* token, so the next such Send comes to a request again; and no Send
\* returns that error but from a failed token request
C35_TokenFetchFailure ==
    [][\A s \in Senders :
          LET a == oauth.calls[s]
              b == oauth'.calls[s]
          IN  /\ (a.pc = "fetching" /\ b # a) =>
                    /\ b.pc = IF b.ans \in {"failed", "undecodable"}
                              THEN "returned" ELSE "post"
                    /\ b.pc = "returned" =>
                          /\ b.err = "failed to get token"
                          /\ oauth'.token = oauth.token
                          /\ oauth'.expiresAt = oauth.expiresAt
                          /\ oauth'.issued = oauth.issued
                          /\ (a.ovrID = "" /\ a.ovrScope = "") =>
                                /\ oauth'.writer = 0
                                /\ ~(oauth'.token # 0 /\ oauth'.now < oauth'.expiresAt)
              /\ (b # a /\ b.err = "failed to get token") => a.pc = "fetching"
              /\ (a.pc = "rlock" /\ b # a
                    /\ ~(oauth.token # 0 /\ oauth.now < oauth.expiresAt)) =>
                    b.pc = "lock"]_vars

\* a token request has failed while an expired token was cached: the Send
\* has returned the error, the old token is still there and the lock free
C35_Witness ==
    \E s \in Senders :
        /\ oauth.calls[s].pc = "returned"
        /\ oauth.calls[s].err = "failed to get token"
        /\ oauth.token # 0 /\ oauth.now >= oauth.expiresAt /\ oauth.writer = 0

\* C36: once Close has returned, Connected() is false and stays false, and
\* a DB handle that Close has set to nil stays nil: the reconnect goroutine
\* of a failed Connect stores no connection any more
C36_CloseStopsReconnect ==
    /\ [](db.close = "returned" => ~db.flag)
    /\ [][(db.close = "returned" /\ db.handle = "nil") => db'.handle = "nil"]_vars

\* C39: a call of the logger handler that has passed the test of the
\* connection inserts through a DB handle that is not nil, whatever Close,
\* ClearDBForTests and the reconnect goroutine do meanwhile
C39_InsertHandleNotNil ==
    /\ [](db.lg.pc # "panicked")
    /\ [][(db.lg.pc = "insert" /\ db'.lg # db.lg) => db.handle # "nil"]_vars

\* C37: in a lineage whose first delivery has attempt >= 0, every envelope
\* a worker republishes has an attempt a with 1 <= a <= max_attempts - 1
\* (max_attempts 5 when <= 0), one more than the delivery it replaces, so
\* no delivery with attempt >= max_attempts - 1 is republished
C37_AttemptRange ==
    /\ \A i \in Ids :
          (hist[i].seen /\ hist[i].first.env.attempt >= 0) =>
              \A k \in 1..Len(hist[i].pubs) :
                  LET q == hist[i].pubs[k]
                      m == IF q.max_attempts <= 0 THEN 5 ELSE q.max_attempts
                  IN  1 <= q.attempt /\ q.attempt <= m - 1
    /\ \A w \in Workers :
          (wk[w].pub.made /\ wk[w].d.body.env.attempt >= 0) =>
              LET e == wk[w].d.body.env
                  q == wk[w].pub.body.env
                  m == IF q.max_attempts <= 0 THEN 5 ELSE q.max_attempts
              IN  /\ q.attempt = e.attempt + 1
                  /\ 1 <= q.attempt /\ q.attempt <= m - 1
                  /\ e.attempt < m - 1

\* the last retry a lineage gets: attempt 2 of 3 has been republished
C37_Witness ==
    \E w \in Workers :
        /\ wk[w].pub.made /\ wk[w].pub.ok
        /\ wk[w].pub.body.env.attempt = 2 /\ wk[w].pub.body.env.max_attempts = 3
        /\ hist[wk[w].pub.body.env.id].first.env.attempt >= 0

\* C38: whatever attempt a parseable envelope holds, the worker that gets a
\* retry verdict for it does not panic, publishes an x-delay of at least
\* 1000 ms and settles the delivery with one ack or one nack
C38_RetryCompletes ==
    /\ mainPc # "crashed"
    /\ \A w \in Workers :
          /\ wk[w].pc # "panicked"
          /\ wk[w].pub.made => wk[w].pub.xdelay >= 1000
          /\ (wk[w].pc = "settled" /\ wk[w].res.Retry) =>
                wk[w].acks + wk[w].nacks = 1

\* C40: every envelope a worker republishes on the retry path is published
\* with the persistent delivery mode, as the envelopes of the publisher are
C40_RetryPersistent ==
    \A w \in Workers : wk[w].pub.made => wk[w].pub.DeliveryMode = "persistent"

====
